---- MODULE Spec2Model ----
(***************************************************************************)
(* Receipt reconciliation engine of the Jumbo API client                   *)
(* (src/app/jumbo_client.py): the print-layout receipt parser, the         *)
(* confidence scorer and the barcode similarity scorer.                    *)
(*                                                                         *)
(* Text is modelled as a sequence of one-character strings, so that strip, *)
(* startswith, substring search, the regular expressions and float() are   *)
(* computed character by character, as the code computes them.  A decimal  *)
(* number is a record [t |-> "num", m |-> mantissa, e |-> fraction digits] *)
(* in lowest terms (1,50 and 1.5 are the same value).                      *)
(***************************************************************************)
EXTENDS Integers, Sequences, FiniteSets, TLC

VARIABLES
    \* ---- _parse_receipt_json ----
    raw_json,        \* the argument: a descriptor of the text handed to json.loads
    data,            \* json.loads(raw_json)
    text_objects,    \* the flattened list of lines, each a list of token values
    i,               \* the cursor of the line walk (0-based, as in the code)
    in_items,        \* the items-section flag
    items,           \* line items created so far, in document order
    total, payment_method, vat_lines, item_count,
    result,          \* the returned dict, once pc = "done"
    pc,              \* "decode" | "flatten" | "walk" | "done" | "raised" | "idle"
    exc,             \* class of the exception that left the function, if any
    last,            \* name of the branch the last loop iteration took (history)
    \* ---- _compute_confidence ----
    sc,
    \* ---- _calculate_ean_similarity ----
    ean,
    \* ---- _resolve_receipt_products ----
    rs,              \* the frame of each invocation: its locals and position
    disk,            \* content of the match cache file (RECEIPT_SKU_CACHE)
    flushed,         \* the invocations that saved the cache, in order (history)
    \* ---- _search_product_skus ----
    srch,            \* the frame of one call: its attempts, position and result
    \* ---- barcode_lookup ----
    bl,              \* the frame of one call and the barcode cache file
    \* ---- graphql_request ----
    gq,              \* the frame of one call and the client's session
    \* ---- login ----
    lg               \* the frame of one call and the client's cookies

vars == <<raw_json, data, text_objects, i, in_items, items, total,
          payment_method, vat_lines, item_count, result, pc, exc, last, sc, ean, rs, disk, flushed, srch, bl, gq, lg>>

parseVars == <<raw_json, data, text_objects, i, in_items, items, total,
               payment_method, vat_lines, item_count, result, pc, exc, last>>

----------------------------------------------------------------------------
(* Characters and strings                                                  *)

Digits == {"0", "1", "2", "3", "4", "5", "6", "7", "8", "9"}

DigitVal(c) ==
    CASE c = "0" -> 0 [] c = "1" -> 1 [] c = "2" -> 2 [] c = "3" -> 3
      [] c = "4" -> 4 [] c = "5" -> 5 [] c = "6" -> 6 [] c = "7" -> 7
      [] c = "8" -> 8 [] c = "9" -> 9

LowerAlpha == <<"a","b","c","d","e","f","g","h","i","j","k","l","m",
                "n","o","p","q","r","s","t","u","v","w","x","y","z">>
UpperAlpha == <<"A","B","C","D","E","F","G","H","I","J","K","L","M",
                "N","O","P","Q","R","S","T","U","V","W","X","Y","Z">>

IsSpace(c) == c \in {" ", "\t", "\n"}

UpperChar(c) ==
    IF \E k \in 1..26 : LowerAlpha[k] = c
    THEN UpperAlpha[CHOOSE k \in 1..26 : LowerAlpha[k] = c]
    ELSE c

LowerChar(c) ==
    IF \E k \in 1..26 : UpperAlpha[k] = c
    THEN LowerAlpha[CHOOSE k \in 1..26 : UpperAlpha[k] = c]
    ELSE c

\* str.upper() / str.lower()
Upper(s) == [k \in 1..Len(s) |-> UpperChar(s[k])]
Lower(s) == [k \in 1..Len(s) |-> LowerChar(s[k])]

\* str.strip()
RECURSIVE LStrip(_)
LStrip(s) == IF s # <<>> /\ IsSpace(Head(s)) THEN LStrip(Tail(s)) ELSE s
RECURSIVE RStrip(_)
RStrip(s) ==
    IF s # <<>> /\ IsSpace(s[Len(s)]) THEN RStrip(SubSeq(s, 1, Len(s) - 1)) ELSE s
Strip(s) == RStrip(LStrip(s))

\* str.startswith(p)
StartsWith(s, p) == Len(s) >= Len(p) /\ SubSeq(s, 1, Len(p)) = p

\* p in s
Contains(s, p) ==
    \E k \in 0..(Len(s) - Len(p)) : SubSeq(s, k + 1, k + Len(p)) = p

\* str.replace(",", ".")
CommaToDot(s) == [k \in 1..Len(s) |-> IF s[k] = "," THEN "." ELSE s[k]]

\* " ".join(parts) and "".join(parts)
RECURSIVE JoinSp(_)
JoinSp(parts) ==
    IF parts = <<>> THEN <<>>
    ELSE IF Len(parts) = 1 THEN parts[1]
    ELSE parts[1] \o <<" ">> \o JoinSp(Tail(parts))
RECURSIVE JoinEmpty(_)
JoinEmpty(parts) ==
    IF parts = <<>> THEN <<>> ELSE parts[1] \o JoinEmpty(Tail(parts))

AllDigits(s) == \A k \in 1..Len(s) : s[k] \in Digits

\* int(s) for a string of decimal digits
RECURSIVE IntOf(_)
IntOf(s) ==
    IF s = <<>> THEN 0 ELSE 10 * IntOf(SubSeq(s, 1, Len(s) - 1)) + DigitVal(s[Len(s)])

\* index just past the run of characters of class C that starts at index k
RECURSIVE SpanEnd(_, _, _)
SpanEnd(s, k, C) ==
    IF k <= Len(s) /\ s[k] \in C THEN SpanEnd(s, k + 1, C) ELSE k

SpaceChars == {" ", "\t", "\n"}

----------------------------------------------------------------------------
(* Values: JSON values and Python None / float                             *)

J_Null == [t |-> "null"]
J_Int(n) == [t |-> "int", n |-> n]
J_Str(s) == [t |-> "str", s |-> s]
J_List(v) == [t |-> "list", v |-> v]
J_Dict(v) == [t |-> "dict", v |-> v]

None == J_Null

RECURSIVE Norm(_, _)
Norm(m, e) == IF e > 0 /\ m % 10 = 0 THEN Norm(m \div 10, e - 1) ELSE [t |-> "num", m |-> m, e |-> e]

Ok(v) == [exc |-> "none", v |-> v]
Err(e) == [exc |-> e, v |-> <<>>]

\* float(s) on the decimal literals [sign] digits [ "." digits ]; every other
\* string of the model's alphabet raises ValueError.  (The forms float() also
\* takes, exponents, "inf", "nan" and digit-group underscores, are not built by
\* the token table below.)
ParseFloat(s) ==
    LET sgn  == IF s # <<>> /\ s[1] \in {"+", "-"} THEN 1 ELSE 0
        neg  == s # <<>> /\ s[1] = "-"
        body == SubSeq(s, sgn + 1, Len(s))
        ie   == SpanEnd(body, 1, Digits)
        int  == SubSeq(body, 1, ie - 1)
        dot  == ie <= Len(body) /\ body[ie] = "."
        frac == IF dot THEN SubSeq(body, ie + 1, Len(body)) ELSE <<>>
        good == /\ (dot \/ ie = Len(body) + 1)
                /\ AllDigits(frac)
                /\ Len(int) + Len(frac) > 0
        mant == IntOf(int \o frac)
    IN IF good THEN Ok(Norm(IF neg THEN 0 - mant ELSE mant, Len(frac)))
       ELSE Err("ValueError")

----------------------------------------------------------------------------
(* The document handed to the parser                                       *)

\* x[key] for a string key
GetItem(j, key) ==
    IF j.t = "dict" THEN (IF key \in DOMAIN j.v THEN Ok(j.v[key]) ELSE Err("KeyError"))
    ELSE Err("TypeError")

\* x[0]
GetIndex0(j) ==
    CASE j.t = "list" -> IF j.v # <<>> THEN Ok(j.v[1]) ELSE Err("IndexError")
      [] j.t = "str"  -> IF j.s # <<>> THEN Ok(J_Str(<<j.s[1]>>)) ELSE Err("IndexError")
      [] j.t = "dict" -> Err("KeyError")
      [] OTHER        -> Err("TypeError")

\* x.get(key, default): only a dict has the method
DictGet(j, key, default) ==
    IF j.t = "dict" THEN Ok(IF key \in DOMAIN j.v THEN j.v[key] ELSE default)
    ELSE Err("AttributeError")

\* the keys of a dict, as iteration yields them (strings; their order is not
\* observed by the parser, which fails on the first of them)
RECURSIVE KeySeq(_)
KeySeq(K) ==
    IF K = {} THEN <<>>
    ELSE LET k == CHOOSE x \in K : TRUE IN <<J_Str(<<k>>)>> \o KeySeq(K \ {k})

\* for x in j
Iter(j) ==
    CASE j.t = "list" -> Ok(j.v)
      [] j.t = "str"  -> Ok([k \in 1..Len(j.s) |-> J_Str(<<j.s[k]>>)])
      [] j.t = "dict" -> Ok(KeySeq(DOMAIN j.v))
      [] OTHER        -> Err("TypeError")

\* [t.get("text", "") for t in line.get("texts", [])]
RECURSIVE TextsOf(_)
TextsOf(ts) ==
    IF ts = <<>> THEN Ok(<<>>)
    ELSE LET g == DictGet(Head(ts), "text", J_Str(<<>>)) IN
         IF g.exc # "none" THEN g
         ELSE LET r == TextsOf(Tail(ts)) IN
              IF r.exc # "none" THEN r ELSE Ok(<<g.v>> \o r.v)

LineTexts(line) ==
    LET g == DictGet(line, "texts", J_List(<<>>)) IN
    IF g.exc # "none" THEN g
    ELSE LET it == Iter(g.v) IN IF it.exc # "none" THEN it ELSE TextsOf(it.v)

\* for line in obj.get("textLines", []): text_objects.append(texts)
RECURSIVE LinesOf(_)
LinesOf(ls) ==
    IF ls = <<>> THEN Ok(<<>>)
    ELSE LET h == LineTexts(Head(ls)) IN
         IF h.exc # "none" THEN h
         ELSE LET r == LinesOf(Tail(ls)) IN
              IF r.exc # "none" THEN r ELSE Ok(<<h.v>> \o r.v)

ObjLines(obj) ==
    LET g == DictGet(obj, "textLines", J_List(<<>>)) IN
    IF g.exc # "none" THEN g
    ELSE LET it == Iter(g.v) IN IF it.exc # "none" THEN it ELSE LinesOf(it.v)

\* for obj in section.get("textObjects", [])
RECURSIVE ObjsOf(_)
ObjsOf(os) ==
    IF os = <<>> THEN Ok(<<>>)
    ELSE LET h == ObjLines(Head(os)) IN
         IF h.exc # "none" THEN h
         ELSE LET r == ObjsOf(Tail(os)) IN
              IF r.exc # "none" THEN r ELSE Ok(h.v \o r.v)

SectionLines(section) ==
    LET g == DictGet(section, "textObjects", J_List(<<>>)) IN
    IF g.exc # "none" THEN g
    ELSE LET it == Iter(g.v) IN IF it.exc # "none" THEN it ELSE ObjsOf(it.v)

\* for section in sections
RECURSIVE SectionsOf(_)
SectionsOf(ss) ==
    IF ss = <<>> THEN Ok(<<>>)
    ELSE LET h == SectionLines(Head(ss)) IN
         IF h.exc # "none" THEN h
         ELSE LET r == SectionsOf(Tail(ss)) IN
              IF r.exc # "none" THEN r ELSE Ok(h.v \o r.v)

\* data["documents"][0]["documents"][0]["printSections"]
PrintSections(d) ==
    LET a == GetItem(d, "documents") IN
    IF a.exc # "none" THEN a ELSE
    LET b == GetIndex0(a.v) IN
    IF b.exc # "none" THEN b ELSE
    LET c == GetItem(b.v, "documents") IN
    IF c.exc # "none" THEN c ELSE
    LET e == GetIndex0(c.v) IN
    IF e.exc # "none" THEN e ELSE GetItem(e.v, "printSections")

\* the body of the try block that fills text_objects: the lines, or the class
\* of the first exception raised
FlattenDoc(d) ==
    LET s == PrintSections(d) IN
    IF s.exc # "none" THEN s
    ELSE LET it == Iter(s.v) IN IF it.exc # "none" THEN it ELSE SectionsOf(it.v)

\* except (KeyError, IndexError, TypeError)
CaughtStructural == {"KeyError", "IndexError", "TypeError"}

----------------------------------------------------------------------------
(* Marker strings of the receipt layout                                    *)

OMSCHRIJVING == <<"O","M","S","C","H","R","I","J","V","I","N","G">>
BEDRAG       == <<"B","E","D","R","A","G">>
Totaal       == <<"T","o","t","a","a","l">>
STATIEGELD   == <<"S","T","A","T","I","E","G","E","L","D">>
Betaald      == <<"B","e","t","a","a","l","d">>
BTWPct       == <<"B","T","W","%">>
BedragExcl   == <<"B","e","d","r","a","g"," ","e","x","c","l">>
BTWTotaal    == <<"B","T","W"," ","T","o","t","a","a","l">>
AantalArt    == <<"A","a","n","t","a","l"," ","a","r","t","i","k","e","l","e","n">>

----------------------------------------------------------------------------
(* Inputs: the lines a receipt document is built from                      *)

\* the token lists of the lines, as the print layout gives them
LineIds == {"header", "sep", "melk", "deposit", "qty", "total", "pay", "vathdr", "vatrow", "count", "blank"}

\* the lines of the VAT block: the grand total row in one token and in two
VatLineIds == {"vatrow", "vatsum", "vattot", "vatshort", "sep", "blank", "melk"}

LineTable(id) ==
    CASE id = "header" -> << <<"O","M","S","C","H","R","I","J","V","I","N","G">>, <<"B","E","D","R","A","G">> >>
      [] id = "sep" -> << <<"=","=","=","=","=">> >>
      [] id = "melk" -> << <<"M","E","L","K">>, <<"P">>, <<"1",",","0","0">> >>
      [] id = "deposit" -> << <<"S","t","a","t","i","e","g","e","l","d">>, <<"0",",","3","0">> >>
      [] id = "qty" -> << <<"2"," ","X"," ","0",",","9","4">>, <<"1",",","8","8">> >>
      [] id = "total" -> << <<"T","o","t","a","a","l">>, <<"1","2",".","3","4">> >>
      [] id = "pay" -> << <<"B","e","t","a","a","l","d"," ","m","e","t",":">> >>
      [] id = "vathdr" -> << <<"B","T","W","%">>, <<"B","e","d","r","a","g"," ","e","x","c","l">>, <<"B","T","W">> >>
      [] id = "vatrow" -> << <<" ","9","%">>, <<"1","0",",","0","0">>, <<"0",",","9","0">> >>
      [] id = "count" -> << <<"A","a","n","t","a","l"," ","a","r","t","i","k","e","l","e","n",":"," ","3">> >>
      [] id = "blank" -> << <<" ">> >>
      [] id = "vatsum" -> << <<"B","T","W"," ","T","o","t","a","a","l">>, <<"1","0",",","0","0">>, <<"0",",","9","0">> >>
      [] id = "vattot" -> << <<"B","T","W">>, <<"T","o","t","a","a","l">>, <<"1","0",",","0","0">>, <<"0",",","9","0">> >>
      [] id = "vatshort" -> << <<"2","1","%">>, <<" ">>, <<"5",",","0","0">> >>

\* the lines of the items section
ItemLineIds == {"melk", "deposit", "qty", "total", "sep"}

\* longest receipt document built from all lines
MaxLines == 3

\* longest items section after a header line, built from the item lines
MaxItemLines == 4

RECURSIVE SeqsUpTo(_, _)
SeqsUpTo(S, n) ==
    IF n = 0 THEN {<<>>}
    ELSE LET shorter == SeqsUpTo(S, n - 1) IN
         shorter \cup {Append(q, x) : q \in {r \in shorter : Len(r) = n - 1}, x \in S}

\* JSON of one text line with the given token values
LineJson(tokens) ==
    J_Dict([texts |-> J_List([k \in 1..Len(tokens) |-> J_Dict([text |-> tokens[k]])])])

StrLine(id) == LineJson([k \in 1..Len(LineTable(id)) |-> J_Str(LineTable(id)[k])])

\* {"documents": [{"documents": [{"printSections": sections}]}]}
Envelope(sections) ==
    J_Dict([documents |-> J_List(<<
        J_Dict([documents |-> J_List(<< J_Dict([printSections |-> sections]) >>)]) >>)])

SectionJson(lines) ==
    J_Dict([textObjects |-> J_List(<< J_Dict([textLines |-> J_List(lines)]) >>)])

\* a well-formed receipt: one print section holding the lines ids[1..]
ReceiptJson(ids) == Envelope(J_List(<< SectionJson([k \in 1..Len(ids) |-> StrLine(ids[k])]) >>))

\* documents that decode but are not receipts of the expected shape
Malformed == <<
    J_Dict(<<>>),                                              \* {}
    J_Dict([documents |-> J_List(<<>>)]),                      \* {"documents": []}
    J_Int(5),                                                  \* 5
    Envelope(J_Int(5)),                                        \* printSections: 5
    Envelope(J_List(<< J_Str(<<"x">>) >>)),                    \* printSections: ["x"]
    Envelope(J_Dict([a |-> J_Int(1)])),                        \* printSections: {"a": 1}
    Envelope(J_List(<< J_Dict([textObjects |-> J_List(<< J_Int(5) >>)]) >>)),
    Envelope(J_List(<< J_Dict([textObjects |-> J_List(<< J_Dict([textLines |-> J_Null]) >>)]) >>)),
    Envelope(J_List(<< SectionJson(<< J_Dict([texts |-> J_List(<< J_Str(<<"a">>) >>)]) >>) >>)),
    Envelope(J_List(<< SectionJson(<< LineJson(<< J_Int(5) >>) >>) >>)),
    Envelope(J_List(<< SectionJson(<< LineJson(<< J_Null >>) >>) >>)),
    Envelope(J_List(<< SectionJson(<< StrLine("header"), LineJson(<< J_Int(5) >>) >>) >>)),
    Envelope(J_List(<< SectionJson(<< StrLine("pay"), LineJson(<< J_Null >>) >>) >>)),
    Envelope(J_List(<< SectionJson(<< StrLine("vathdr"), StrLine("vatrow"), LineJson(<< J_Int(5) >>) >>) >>)),
    Envelope(J_List(<< SectionJson(<< J_Dict(<<>>) >>), J_Dict(<<>>) >>)),
    Envelope(J_Str(<<>>)) >>

\* whole receipts: a second items section after a total line, marker lines
\* inside the items section, a VAT block between two items sections
Receipts2 == {
    <<"header", "sep", "melk", "total", "melk", "header", "melk", "qty", "total">>,
    <<"melk", "total", "header", "pay", "vathdr", "count", "total", "pay", "melk", "count">>,
    <<"header", "melk", "total", "vathdr", "vatrow", "vatsum", "sep", "header", "deposit">> }

RawInputs ==
    {[kind |-> "none"], [kind |-> "garbage"]}
      \cup {[kind |-> "malformed", id |-> k] : k \in 1..Len(Malformed)}
      \cup {[kind |-> "receipt", lines |-> q] : q \in SeqsUpTo(LineIds, MaxLines)}
      \cup {[kind |-> "receipt", lines |-> <<"header">> \o q] :
                q \in SeqsUpTo(ItemLineIds, MaxItemLines)}
      \cup {[kind |-> "receipt", lines |-> <<"vathdr">> \o q] :
                q \in SeqsUpTo(VatLineIds, MaxItemLines)}
      \cup {[kind |-> "receipt", lines |-> q] : q \in Receipts2}

\* json.loads: TypeError for an argument that is not text, JSONDecodeError for
\* text that is not JSON, otherwise the decoded value
JsonLoads(raw) ==
    CASE raw.kind = "none"      -> Err("TypeError")
      [] raw.kind = "garbage"   -> Err("JSONDecodeError")
      [] raw.kind = "malformed" -> Ok(Malformed[raw.id])
      [] raw.kind = "receipt"   -> Ok(ReceiptJson(raw.lines))

----------------------------------------------------------------------------
(* _parse_receipt_json: helpers of the line walk                           *)

NonEmpty(x) == x # <<>>

AllStr(ts) == \A k \in 1..Len(ts) : ts[k].t = "str"

\* [t.strip() for t in texts if t.strip()]
Parts(ts) == SelectSeq([k \in 1..Len(ts) |-> Strip(ts[k].s)], NonEmpty)

\* " ".join(t.strip() for t in texts if t.strip())
Joined(ts) == JoinSp(Parts(ts))

\* the last token of the line that float() accepts after strip and "," -> "."
RECURSIVE LastFloat(_)
LastFloat(ts) ==
    IF ts = <<>> THEN Err("ValueError")
    ELSE LET r == ParseFloat(CommaToDot(Strip(ts[Len(ts)].s))) IN
         IF r.exc = "none" THEN r ELSE LastFloat(SubSeq(ts, 1, Len(ts) - 1))

\* "OMSCHRIJVING" in joined and "BEDRAG" in joined
IsHeaderLine(joined) == Contains(joined, OMSCHRIJVING) /\ Contains(joined, BEDRAG)

\* x.startswith("=") or x.startswith("-")
IsRule(x) == StartsWith(x, <<"=">>) \/ StartsWith(x, <<"-">>)

\* first = texts[0].strip() if texts else ""
FirstOf(ts) == IF ts # <<>> THEN Strip(ts[1].s) ELSE <<>>

\* re.match(r"^\s*(\d+)\s*[Xx]\s*(\d+[,.]\d+)", first)
QtyMatch(first) ==
    LET p1 == SpanEnd(first, 1, SpaceChars)
        d1 == SpanEnd(first, p1, Digits)
        p2 == SpanEnd(first, d1, SpaceChars)
        p3 == SpanEnd(first, p2 + 1, SpaceChars)
        d2 == SpanEnd(first, p3, Digits)
        d3 == SpanEnd(first, d2 + 1, Digits)
        ok == /\ d1 > p1
              /\ p2 <= Len(first) /\ first[p2] \in {"X", "x"}
              /\ d2 > p3
              /\ d2 <= Len(first) /\ first[d2] \in {",", "."}
              /\ d3 > d2 + 1
    IN IF ok
       THEN [ok |-> TRUE,
             qty |-> IntOf(SubSeq(first, p1, d1 - 1)),
             unit |-> ParseFloat(CommaToDot(SubSeq(first, p3, d3 - 1))).v]
       ELSE [ok |-> FALSE, qty |-> 0, unit |-> None]

\* re.match(r"Aantal artikelen.*?:\s*(\d+)", joined): the first colon after
\* the marker that is followed by optional blanks and a digit
CountMatch(joined) ==
    LET n == Len(AantalArt)
        hits == {k \in (n + 1)..Len(joined) :
                    /\ joined[k] = ":"
                    /\ \A q \in (n + 1)..k : joined[q] # "\n"
                    /\ LET d == SpanEnd(joined, k + 1, SpaceChars) IN
                       d <= Len(joined) /\ joined[d] \in Digits}
    IN IF StartsWith(joined, AantalArt) /\ hits # {}
       THEN LET k == CHOOSE x \in hits : \A y \in hits : x <= y
                d == SpanEnd(joined, k + 1, SpaceChars)
            IN [ok |-> TRUE, n |-> IntOf(SubSeq(joined, d, SpanEnd(joined, d, Digits) - 1))]
       ELSE [ok |-> FALSE, n |-> 0]

\* the item a regular product line creates
NewItem(ts) ==
    LET first == FirstOf(ts)
        lf == LastFloat(ts)
        price_val == IF lf.exc = "none" THEN lf.v ELSE None
    IN [name |-> Strip(first),
        price |-> price_val,
        quantity |-> 1,
        unitPrice |-> price_val,
        isPromo |-> Len(ts) > 1 /\ Strip(ts[2].s) = <<"P">>,
        isDeposit |-> Upper(Strip(first)) = STATIEGELD]

\* the effect of a quantity line on the most recently appended item
WithQuantity(it, m, ts) ==
    LET lf == LastFloat(ts) IN
    [it EXCEPT !.quantity = m.qty,
               !.unitPrice = m.unit,
               !.price = IF lf.exc = "none" THEN lf.v ELSE @]

\* the VAT sub-scan from line k on: collects the rows and stops at a rule or
\* an empty line without consuming it
RECURSIVE VatScan(_, _, _)
VatScan(lines, k, acc) ==
    IF k >= Len(lines) THEN [i |-> k, vat |-> acc, exc |-> "none"]
    ELSE LET vt == lines[k + 1] IN
         IF ~AllStr(vt) THEN [i |-> k, vat |-> acc, exc |-> "AttributeError"]
         ELSE LET vj == Joined(vt) IN
              IF IsRule(vj) \/ vj = <<>> THEN [i |-> k, vat |-> acc, exc |-> "none"]
              ELSE VatScan(lines, k + 1,
                           IF Contains(vj, <<"%">>) \/ StartsWith(vj, BTWTotaal)
                           THEN Append(acc, Parts(vt)) ELSE acc)

\* cursor after the header line at k: the rule line that follows it is skipped
AfterHeader(lines, k) ==
    IF k + 1 < Len(lines) /\ IsRule(JoinEmpty([q \in 1..Len(lines[k + 2]) |-> lines[k + 2][q].s]))
    THEN k + 2 ELSE k + 1

\* mutant of AfterPayment: the cursor is not moved past the payment line
AfterPayment_Stuck(k) == k

\* mutant of AfterPayment: the line after the payment line is left to the loop
AfterPayment_NextStays(k) == k + 1

\* cursor after the payment line at k: the next line is consumed with it
AfterPayment(k) == k + 2

\* mutant of BranchOf: the total line is recognised outside the items state too
BranchOf_TotalAnywhere(ts) ==
    LET joined == Joined(ts)
        first == FirstOf(ts)
    IN IF IsHeaderLine(joined) THEN "header"
       ELSE IF StartsWith(joined, Totaal) THEN "total"
       ELSE IF in_items THEN
            (IF IsRule(first) \/ first = <<>> THEN "separator"
             ELSE IF QtyMatch(first).ok /\ items # <<>> THEN "quantity"
             ELSE "item")
       ELSE IF StartsWith(joined, Betaald) THEN "payment"
       ELSE IF StartsWith(joined, BTWPct) \/ Contains(joined, BedragExcl) THEN "vat"
       ELSE IF CountMatch(joined).ok THEN "count"
       ELSE "unmatched"

\* mutant of BranchOf: the payment, VAT and item-count rules come before the
\* rules of the items state
BranchOf_MarkersFirst(ts) ==
    LET joined == Joined(ts)
        first == FirstOf(ts)
    IN IF IsHeaderLine(joined) THEN "header"
       ELSE IF in_items /\ StartsWith(joined, Totaal) THEN "total"
       ELSE IF StartsWith(joined, Betaald) THEN "payment"
       ELSE IF StartsWith(joined, BTWPct) \/ Contains(joined, BedragExcl) THEN "vat"
       ELSE IF CountMatch(joined).ok THEN "count"
       ELSE IF in_items THEN
            (IF IsRule(first) \/ first = <<>> THEN "separator"
             ELSE IF QtyMatch(first).ok /\ items # <<>> THEN "quantity"
             ELSE "item")
       ELSE "unmatched"

\* the branch of the loop body that a line of strings takes
BranchOf(ts) ==
    LET joined == Joined(ts)
        first == FirstOf(ts)
    IN IF IsHeaderLine(joined) THEN "header"
       ELSE IF in_items /\ StartsWith(joined, Totaal) THEN "total"
       ELSE IF in_items THEN
            (IF IsRule(first) \/ first = <<>> THEN "separator"
             ELSE IF QtyMatch(first).ok /\ items # <<>> THEN "quantity"
             ELSE "item")
       ELSE IF StartsWith(joined, Betaald) THEN "payment"
       ELSE IF StartsWith(joined, BTWPct) \/ Contains(joined, BedragExcl) THEN "vat"
       ELSE IF CountMatch(joined).ok THEN "count"
       ELSE "unmatched"

\* the class of the exception branch b raises on the lines after the cursor
\* ("".join and .strip() on a token that is not a string), or "none"
LookaheadExc(b) ==
    IF b = "header"
    THEN (IF i + 1 < Len(text_objects) /\ ~AllStr(text_objects[i + 2])
          THEN "TypeError" ELSE "none")
    ELSE IF b = "payment"
    THEN (IF /\ i + 1 < Len(text_objects)
             /\ text_objects[i + 2] # <<>>
             /\ text_objects[i + 2][1].t # "str"
          THEN "AttributeError" ELSE "none")
    ELSE IF b = "vat" THEN VatScan(text_objects, i + 1, vat_lines).exc
    ELSE "none"

\* one iteration of the loop body at the cursor: the branch it takes and the
\* class of the exception it raises, if any (t.strip() on the line's own tokens
\* comes first)
Step ==
    LET ts == text_objects[i + 1] IN
    IF ~AllStr(ts) THEN [branch |-> "none", exc |-> "AttributeError"]
    ELSE LET b == BranchOf(ts) IN [branch |-> b, exc |-> LookaheadExc(b)]

InLoop == pc = "walk" /\ i < Len(text_objects)

Takes(b) == InLoop /\ LET s == Step IN s.exc = "none" /\ s.branch = b

\* the VAT summary built from the collected rows
RECURSIVE VatSummary(_)
VatSummary(rows) ==
    IF rows = <<>> THEN <<>>
    ELSE LET parts == Head(rows) IN
         (IF Len(parts) >= 3 /\ ~Contains(parts[1], Totaal)
          THEN << [rate |-> parts[1], amountExcl |-> parts[2], vatAmount |-> parts[3]] >>
          ELSE <<>>) \o VatSummary(Tail(rows))

\* mutant of IsProduct: deposits are also kept among the products
IsProduct_Any(it) == TRUE

IsDeposit(it) == it.isDeposit
IsProduct(it) == ~it.isDeposit

ParseErrorResult(msg) == [items |-> <<>>, parseError |-> msg]

----------------------------------------------------------------------------
(* _parse_receipt_json: the function, one action per step                  *)

ParseInit ==
    /\ raw_json \in RawInputs
    /\ data = None
    /\ text_objects = <<>>
    /\ i = 0
    /\ in_items = FALSE
    /\ items = <<>>
    /\ total = None
    /\ payment_method = None
    /\ vat_lines = <<>>
    /\ item_count = None
    /\ result = None
    /\ pc = "decode"
    /\ exc = "none"
    /\ last = "none"

ParseIdle ==
    /\ raw_json = None /\ data = None /\ text_objects = <<>> /\ i = 0
    /\ in_items = FALSE /\ items = <<>> /\ total = None /\ payment_method = None
    /\ vat_lines = <<>> /\ item_count = None /\ result = None
    /\ pc = "idle" /\ exc = "none" /\ last = "none"

\* no invocation of _resolve_receipt_products exists
ResolveIdle == rs = None /\ disk = None /\ flushed = <<>>

\* no call of _search_product_skus, barcode_lookup, graphql_request or login
\* exists
ClientIdle == srch = None /\ bl = None /\ gq = None /\ lg = None

\* try: data = json.loads(raw_json) / except (JSONDecodeError, TypeError)
Decode ==
    /\ pc = "decode"
    /\ LET r == JsonLoads(raw_json) IN
       IF r.exc = "none"
       THEN /\ data' = r.v
            /\ pc' = "flatten"
            /\ UNCHANGED result
       ELSE /\ result' = ParseErrorResult("Invalid receipt JSON")
            /\ pc' = "done"
            /\ UNCHANGED data
    /\ UNCHANGED <<raw_json, text_objects, i, in_items, items, total,
                   payment_method, vat_lines, item_count, exc, last, sc, ean, rs, disk, flushed, srch, bl, gq, lg>>

\* the try block that flattens the sections into text_objects
Flatten ==
    /\ pc = "flatten"
    /\ LET r == FlattenDoc(data) IN
       IF r.exc = "none"
       THEN /\ text_objects' = r.v
            /\ pc' = "walk"
            /\ UNCHANGED <<result, exc>>
       ELSE IF r.exc \in CaughtStructural
       THEN /\ result' = ParseErrorResult("Unexpected receipt structure")
            /\ pc' = "done"
            /\ UNCHANGED <<text_objects, exc>>
       ELSE /\ pc' = "raised"
            /\ exc' = r.exc
            /\ UNCHANGED <<text_objects, result>>
    /\ UNCHANGED <<raw_json, data, i, in_items, items, total,
                   payment_method, vat_lines, item_count, last, sc, ean, rs, disk, flushed, srch, bl, gq, lg>>

\* if "OMSCHRIJVING" in joined and "BEDRAG" in joined
HeaderLine ==
    /\ Takes("header")
    /\ in_items' = TRUE
    /\ i' = AfterHeader(text_objects, i)
    /\ last' = "header"
    /\ UNCHANGED <<raw_json, data, text_objects, items, total, payment_method,
                   vat_lines, item_count, result, pc, exc, sc, ean, rs, disk, flushed, srch, bl, gq, lg>>

\* if in_items and joined.startswith("Totaal")
TotalLine ==
    /\ Takes("total")
    /\ in_items' = FALSE
    /\ LET lf == LastFloat(text_objects[i + 1]) IN
       total' = IF lf.exc = "none" THEN lf.v ELSE total
    /\ i' = i + 1
    /\ last' = "total"
    /\ UNCHANGED <<raw_json, data, text_objects, items, payment_method,
                   vat_lines, item_count, result, pc, exc, sc, ean, rs, disk, flushed, srch, bl, gq, lg>>

\* in_items: a rule line or a line with an empty first token
SeparatorLine ==
    /\ Takes("separator")
    /\ i' = i + 1
    /\ last' = "separator"
    /\ UNCHANGED <<raw_json, data, text_objects, in_items, items, total,
                   payment_method, vat_lines, item_count, result, pc, exc, sc, ean, rs, disk, flushed, srch, bl, gq, lg>>

\* mutant of QuantityLine: items[0] is updated instead of items[-1]
QuantityLine_First ==
    /\ Takes("quantity")
    /\ LET ts == text_objects[i + 1] IN
       items' = [items EXCEPT ![1] = WithQuantity(@, QtyMatch(FirstOf(ts)), ts)]
    /\ i' = i + 1
    /\ last' = "quantity"
    /\ UNCHANGED <<raw_json, data, text_objects, in_items, total, payment_method,
                   vat_lines, item_count, result, pc, exc, sc, ean, rs, disk, flushed, srch, bl, gq, lg>>

\* in_items: if qty_match and items
QuantityLine ==
    /\ Takes("quantity")
    /\ LET ts == text_objects[i + 1] IN
       items' = [items EXCEPT ![Len(items)] = WithQuantity(@, QtyMatch(FirstOf(ts)), ts)]
    /\ i' = i + 1
    /\ last' = "quantity"
    /\ UNCHANGED <<raw_json, data, text_objects, in_items, total, payment_method,
                   vat_lines, item_count, result, pc, exc, sc, ean, rs, disk, flushed, srch, bl, gq, lg>>

\* in_items: regular product line
ItemLine ==
    /\ Takes("item")
    /\ items' = Append(items, NewItem(text_objects[i + 1]))
    /\ i' = i + 1
    /\ last' = "item"
    /\ UNCHANGED <<raw_json, data, text_objects, in_items, total, payment_method,
                   vat_lines, item_count, result, pc, exc, sc, ean, rs, disk, flushed, srch, bl, gq, lg>>

\* if joined.startswith("Betaald")
PaymentLine ==
    /\ Takes("payment")
    /\ payment_method' =
          IF i + 1 < Len(text_objects)
          THEN (IF text_objects[i + 2] # <<>>
                THEN J_Str(Strip(text_objects[i + 2][1].s)) ELSE None)
          ELSE payment_method
    /\ i' = AfterPayment(i)
    /\ last' = "payment"
    /\ UNCHANGED <<raw_json, data, text_objects, in_items, items, total,
                   vat_lines, item_count, result, pc, exc, sc, ean, rs, disk, flushed, srch, bl, gq, lg>>

\* if joined.startswith("BTW%") or "Bedrag excl" in joined
VatHeaderLine ==
    /\ Takes("vat")
    /\ LET r == VatScan(text_objects, i + 1, vat_lines) IN
       /\ vat_lines' = r.vat
       /\ i' = r.i
    /\ last' = "vat"
    /\ UNCHANGED <<raw_json, data, text_objects, in_items, items, total,
                   payment_method, item_count, result, pc, exc, sc, ean, rs, disk, flushed, srch, bl, gq, lg>>

\* if count_match
ItemCountLine ==
    /\ Takes("count")
    /\ item_count' = J_Int(CountMatch(Joined(text_objects[i + 1])).n)
    /\ i' = i + 1
    /\ last' = "count"
    /\ UNCHANGED <<raw_json, data, text_objects, in_items, items, total,
                   payment_method, vat_lines, result, pc, exc, sc, ean, rs, disk, flushed, srch, bl, gq, lg>>

\* the final i += 1 of the loop body
UnmatchedLine ==
    /\ Takes("unmatched")
    /\ i' = i + 1
    /\ last' = "unmatched"
    /\ UNCHANGED <<raw_json, data, text_objects, in_items, items, total,
                   payment_method, vat_lines, item_count, result, pc, exc, sc, ean, rs, disk, flushed, srch, bl, gq, lg>>

\* an exception of the loop body leaves the function: nothing catches it
WalkRaises ==
    /\ InLoop
    /\ LET s == Step IN
       /\ s.exc # "none"
       /\ exc' = s.exc
    /\ pc' = "raised"
    /\ UNCHANGED <<raw_json, data, text_objects, i, in_items, items, total,
                   payment_method, vat_lines, item_count, result, last, sc, ean, rs, disk, flushed, srch, bl, gq, lg>>

\* the loop has ended: partition the items, build the VAT summary, return
Finish ==
    /\ pc = "walk"
    /\ i >= Len(text_objects)
    /\ result' = [items |-> SelectSeq(items, IsProduct),
                  deposits |-> SelectSeq(items, IsDeposit),
                  total |-> total,
                  paymentMethod |-> payment_method,
                  vatSummary |-> VatSummary(vat_lines),
                  itemCount |-> item_count]
    /\ pc' = "done"
    /\ UNCHANGED <<raw_json, data, text_objects, i, in_items, items, total,
                   payment_method, vat_lines, item_count, exc, last, sc, ean, rs, disk, flushed, srch, bl, gq, lg>>

Init == ParseInit /\ sc = None /\ ean = None /\ ResolveIdle /\ ClientIdle

Next ==
    \/ Decode
    \/ Flatten
    \/ HeaderLine
    \/ TotalLine
    \/ SeparatorLine
    \/ QuantityLine
    \/ ItemLine
    \/ PaymentLine
    \/ VatHeaderLine
    \/ ItemCountLine
    \/ UnmatchedLine
    \/ WalkRaises
    \/ Finish

Spec == Init /\ [][Next]_vars

----------------------------------------------------------------------------
(* _extract_size_ml, _name_words                                           *)

Letters == {LowerAlpha[k] : k \in 1..26}
WordChars == Letters \cup {UpperAlpha[k] : k \in 1..26} \cup Digits \cup {"_"}

\* multipliers = {"G": 1, "GR": 1, "ML": 1, "CL": 10, "KG": 1000, "L": 1000}
UnitMultiplier(u) ==
    CASE u = <<"G">> -> 1 [] u = <<"G","R">> -> 1 [] u = <<"M","L">> -> 1
      [] u = <<"C","L">> -> 10 [] u = <<"K","G">> -> 1000 [] u = <<"L">> -> 1000

SizeUnits == {<<"K","G">>, <<"G">>, <<"G","R">>, <<"M","L">>, <<"L">>, <<"C","L">>}

\* _SIZE_RE = (\d+[,.]\d+|\d+)\s*(KG|G|GR|ML|L|CL)\b, ignoring case, tried at
\* index p: the number and unit matched there, or ok = FALSE.  The unit must
\* reach a word boundary, so it is the whole run of word characters.
SizeMatchAt(s, p) ==
    LET e1 == SpanEnd(s, p, Digits)
        isDec == e1 > p /\ e1 <= Len(s) /\ s[e1] \in {",", "."}
                   /\ SpanEnd(s, e1 + 1, Digits) > e1 + 1
        e2 == SpanEnd(s, e1 + 1, Digits)
        UnitAt(q) == LET u == SpanEnd(s, q, SpaceChars) IN
                     Upper(SubSeq(s, u, SpanEnd(s, u, WordChars) - 1))
    IN IF isDec /\ UnitAt(e2) \in SizeUnits
       THEN [ok |-> TRUE, num |-> SubSeq(s, p, e2 - 1), unit |-> UnitAt(e2)]
       ELSE IF e1 > p /\ UnitAt(e1) \in SizeUnits
       THEN [ok |-> TRUE, num |-> SubSeq(s, p, e1 - 1), unit |-> UnitAt(e1)]
       ELSE [ok |-> FALSE, num |-> <<>>, unit |-> <<>>]

RECURSIVE Pow10(_)
Pow10(n) == IF n = 0 THEN 1 ELSE 10 * Pow10(n - 1)

\* _extract_size_ml: None, or the magnitude value * multiplier of the first
\* match, as the fraction n / d
ExtractSize(text) ==
    LET hits == {p \in 1..Len(text) : SizeMatchAt(text, p).ok} IN
    IF hits = {} THEN None
    ELSE LET p == CHOOSE x \in hits : \A y \in hits : x <= y
             m == SizeMatchAt(text, p)
             v == ParseFloat(CommaToDot(m.num)).v
         IN [t |-> "size", n |-> v.m * UnitMultiplier(m.unit), d |-> Pow10(v.e)]

StopWords == { <<"j","u","m","b","o">>, <<"d","e">>, <<"h","e","t">>, <<"e","e","n">>, <<"v","a","n">>, <<"v","o","o","r">>, <<"m","e","t">>, <<"e","n">>, <<"o","f">>, <<"i","n">> }

\* _name_words: the letter runs of the lower-cased text that have at least two
\* letters and are no stop word
NameWords(text) ==
    LET s == Lower(text)
        IsRun(a, b) == /\ a <= b
                       /\ \A k \in a..b : s[k] \in Letters
                       /\ (a = 1 \/ s[a - 1] \notin Letters)
                       /\ (b = Len(s) \/ s[b + 1] \notin Letters)
        words == {SubSeq(s, ab[1], ab[2]) :
                    ab \in {x \in (1..Len(s)) \X (1..Len(s)) : IsRun(x[1], x[2])}}
    IN {w \in words : Len(w) >= 2 /\ w \notin StopWords}

----------------------------------------------------------------------------
(* _compute_confidence.  The float accumulator score is kept in thousandths *)
(* of a point: every factor of the code (0.8, 0.625, 0.375, 0.25, 0.125,    *)
(* 0.67, 0.33, 0.5) is a whole number of thousandths.                       *)

Abs(x) == IF x < 0 THEN 0 - x ELSE x
Min(a, b) == IF a <= b THEN a ELSE b
Max(a, b) == IF a >= b THEN a ELSE b

\* round(n / d) for n >= 0, d > 0: Python rounds a tie to the even integer
RoundHalfEven(n, d) ==
    LET q == n \div d
        r == n % d
    IN IF 2 * r < d THEN q
       ELSE IF 2 * r > d THEN q + 1
       ELSE IF q % 2 = 0 THEN q ELSE q + 1

\* if promo_cents: (None and 0 are falsy)
Truthy(v) == v.t = "int" /\ v.n # 0

\* mutant of BestDiff: the promo price is not read
BestDiff_ListOnly(receipt_price_cents, price) == Abs(price.price - receipt_price_cents)

\* best_diff of the price section
BestDiff(receipt_price_cents, price) ==
    LET d == Abs(price.price - receipt_price_cents) IN
    IF Truthy(price.promoPrice)
    THEN Min(d, Abs(price.promoPrice.n - receipt_price_cents))
    ELSE d

\* mutant of PriceTier: the tier bounds are exclusive (< instead of <=)
PriceTier_Exclusive(best_diff, receipt_price_cents, max_price_score) ==
    LET base == Max(receipt_price_cents, 1)
        Within(pct) == best_diff * 100 < pct * base
    IN IF best_diff = 0 THEN max_price_score * 1000
       ELSE IF Within(5) THEN max_price_score * 800
       ELSE IF Within(10) THEN max_price_score * 625
       ELSE IF Within(20) THEN max_price_score * 375
       ELSE IF Within(30) THEN max_price_score * 250
       ELSE IF Within(50) THEN max_price_score * 125
       ELSE 0

\* the points of the price tier, in thousandths: pct_diff = best_diff /
\* max(receipt_price_cents, 1) * 100 compared with 5, 10, 20, 30, 50
PriceTier(best_diff, receipt_price_cents, max_price_score) ==
    LET base == Max(receipt_price_cents, 1)
        Within(pct) == best_diff * 100 <= pct * base
    IN IF best_diff = 0 THEN max_price_score * 1000
       ELSE IF Within(5) THEN max_price_score * 800
       ELSE IF Within(10) THEN max_price_score * 625
       ELSE IF Within(20) THEN max_price_score * 375
       ELSE IF Within(30) THEN max_price_score * 250
       ELSE IF Within(50) THEN max_price_score * 125
       ELSE 0

\* mutant of PricePoints: the usePriceMatching toggle is not read
PricePoints_Always(in) ==
    IF in.receipt_price_cents > 0
    THEN PriceTier(BestDiff(in.receipt_price_cents, in.product.price),
                   in.receipt_price_cents, in.settings.priceMatchWeight)
    ELSE 0

\* the price section
PricePoints(in) ==
    IF in.settings.usePriceMatching /\ in.receipt_price_cents > 0
    THEN PriceTier(BestDiff(in.receipt_price_cents, in.product.price),
                   in.receipt_price_cents, in.settings.priceMatchWeight)
    ELSE 0

FullText(product) == product.title \o <<" ">> \o product.subtitle

\* mutant of SizeTier: the middle tiers are 0.667 and 0.333 of the cap
SizeTier_Thirds(a, b, max_weight_score) ==
    LET x == a.n * b.d
        y == b.n * a.d
        lo == Min(x, y)
        hi == Max(x, y)
    IN IF hi > 0 /\ lo * 100 >= 99 * hi THEN max_weight_score * 1000
       ELSE IF hi > 0 /\ lo * 10 >= 9 * hi THEN max_weight_score * 667
       ELSE IF hi > 0 /\ lo * 10 >= 7 * hi THEN max_weight_score * 333
       ELSE 0

\* the points of the size tier, in thousandths, for two magnitudes a and b
SizeTier(a, b, max_weight_score) ==
    LET x == a.n * b.d
        y == b.n * a.d
        lo == Min(x, y)
        hi == Max(x, y)
    IN IF hi > 0 /\ lo * 100 >= 99 * hi THEN max_weight_score * 1000
       ELSE IF hi > 0 /\ lo * 10 >= 9 * hi THEN max_weight_score * 670
       ELSE IF hi > 0 /\ lo * 10 >= 7 * hi THEN max_weight_score * 330
       ELSE 0

\* mutant of SizePoints: a size on one side only is as neutral as no size at all
SizePoints_OneSidedNeutral(in) ==
    IF in.settings.useWeightMatching
    THEN LET receipt_size == ExtractSize(in.receipt_name)
             product_size == ExtractSize(FullText(in.product))
         IN IF receipt_size # None /\ product_size # None
            THEN SizeTier(receipt_size, product_size, in.settings.weightMatchWeight)
            ELSE in.settings.weightMatchWeight * 500
    ELSE 0

\* the weight/volume section
SizePoints(in) ==
    IF in.settings.useWeightMatching
    THEN LET receipt_size == ExtractSize(in.receipt_name)
             product_size == ExtractSize(FullText(in.product))
         IN IF receipt_size # None /\ product_size # None
            THEN SizeTier(receipt_size, product_size, in.settings.weightMatchWeight)
            ELSE IF receipt_size = None /\ product_size = None
            THEN in.settings.weightMatchWeight * 500
            ELSE 0
    ELSE 0

\* mutant of NamePoints: the overlap is taken relative to all tokens of both names
NamePoints_Jaccard(in) ==
    IF in.settings.useNameMatching
    THEN LET receipt_words == NameWords(in.receipt_name)
             product_words == NameWords(FullText(in.product))
         IN IF receipt_words # {} /\ product_words # {}
            THEN 1000 * RoundHalfEven(Cardinality(receipt_words \cap product_words)
                                         * in.settings.nameMatchWeight,
                                      Cardinality(receipt_words \cup product_words))
            ELSE 0
    ELSE 0

\* the name overlap section: round(ratio * max_name_score)
NamePoints(in) ==
    IF in.settings.useNameMatching
    THEN LET receipt_words == NameWords(in.receipt_name)
             product_words == NameWords(FullText(in.product))
         IN IF receipt_words # {} /\ product_words # {}
            THEN 1000 * RoundHalfEven(Cardinality(receipt_words \cap product_words)
                                         * in.settings.nameMatchWeight,
                                      Cardinality(receipt_words))
            ELSE 0
    ELSE 0

\* mutant of Clamp: the upper cap is missing
Clamp_NoCap(score) == Max(0, RoundHalfEven(score, 1000))

\* return min(100, max(0, round(score)))
Clamp(score) == Min(100, Max(0, RoundHalfEven(score, 1000)))

\* inputs of the scorer
WeightGrid == {0, 40, 100}

AllSettings ==
    [priceMatchWeight : WeightGrid, weightMatchWeight : WeightGrid,
     nameMatchWeight : WeightGrid,
     usePriceMatching : BOOLEAN, useWeightMatching : BOOLEAN, useNameMatching : BOOLEAN]

DefaultWeights(p, w, n) ==
    [priceMatchWeight |-> 40, weightMatchWeight |-> 30, nameMatchWeight |-> 30,
     usePriceMatching |-> p, useWeightMatching |-> w, useNameMatching |-> n]

Receipts == {
    [name |-> <<"C","O","L","A"," ","1",",","5","L">>, cents |-> 189],
    [name |-> <<"M","E","L","K">>, cents |-> 500],
    [name |-> <<"V","O","L","L","E"," ","M","E","L","K"," ","1","L">>, cents |-> 0] }

Product(title, subtitle, price, promo) ==
    [title |-> title, subtitle |-> subtitle,
     price |-> [price |-> price, promoPrice |-> promo]]

ColaTitle == <<"J","u","m","b","o"," ","C","o","l","a"," ","Z","e","r","o">>
ColaSub   == <<"1",",","5"," ","L">>
MelkTitle == <<"J","u","m","b","o"," ","V","o","l","l","e"," ","M","e","l","k">>
MelkSub   == <<"1"," ","l"," ","p","a","k">>
BroodTitle == <<"B","r","o","o","d">>

GridProducts == {
    Product(ColaTitle, ColaSub, 189, None),
    Product(MelkTitle, MelkSub, 525, J_Int(500)),
    Product(BroodTitle, <<>>, 1000, None) }

\* candidate prices around a receipt price of 500 cents
TierPrices == {249, 250, 475, 500, 525, 526, 550, 551, 600, 601, 650, 651, 750, 751}

TierProducts ==
    {Product(MelkTitle, <<>>, c, promo) : c \in TierPrices, promo \in {None, J_Int(0), J_Int(740)}}

\* every integer cap a weight setting can hold
Caps == 0..100

\* settings with one section enabled and the cap of that section set
PriceOnly(cap) == [DefaultWeights(TRUE, FALSE, FALSE) EXCEPT !.priceMatchWeight = cap]
SizeOnly(cap) == [DefaultWeights(FALSE, TRUE, FALSE) EXCEPT !.weightMatchWeight = cap]
NameOnly(cap) == [DefaultWeights(FALSE, FALSE, TRUE) EXCEPT !.nameMatchWeight = cap]

\* candidate sizes around a receipt size of 1 L: ratios 1, 0.99, 0.989, 0.9,
\* 0.899, 0.7, 0.699 and 0.667
SizeSubs == { <<"1"," ","l">>, <<"9","9","0"," ","m","l">>, <<"9","8","9"," ","m","l">>, <<"9","0","0"," ","m","l">>, <<"8","9","9"," ","m","l">>, <<"7","0","0"," ","m","l">>, <<"6","9","9"," ","m","l">>, <<"1",",","5"," ","l">> }

SizeProducts == {Product(MelkTitle, sub, 189, None) : sub \in SizeSubs}

\* receipt names with two tokens, with no token and with three tokens
NameReceipts == { <<"M","E","L","K"," ","B","R","O","O","D">>, <<"1","L">>, <<"V","O","L","L","E"," ","M","E","L","K"," ","K","A","A","S">> }

\* candidates with tokens {volle, melk, pak}, {brood} and none
NameProducts == {
    Product(MelkTitle, MelkSub, 189, None),
    Product(BroodTitle, <<>>, 189, None),
    Product(<<"J","u","m","b","o">>, <<>>, 189, None) }

ScoreInputs ==
    {[receipt_name |-> r.name, receipt_price_cents |-> r.cents, product |-> pr, settings |-> st] :
        r \in Receipts, pr \in GridProducts, st \in AllSettings}
    \cup
    {[receipt_name |-> <<"M","E","L","K">>, receipt_price_cents |-> 500, product |-> pr, settings |-> st] :
        pr \in TierProducts,
        st \in {DefaultWeights(TRUE, FALSE, FALSE), DefaultWeights(TRUE, TRUE, TRUE)}
                  \cup {PriceOnly(cap) : cap \in WeightGrid}}
    \cup
    {[receipt_name |-> <<"V","O","L","L","E"," ","M","E","L","K"," ","1","L">>, receipt_price_cents |-> 189, product |-> pr, settings |-> SizeOnly(cap)] :
        pr \in SizeProducts, cap \in Caps}
    \cup
    {[receipt_name |-> nm, receipt_price_cents |-> 189, product |-> pr, settings |-> NameOnly(cap)] :
        nm \in NameReceipts, pr \in NameProducts, cap \in Caps}

ScoreInit ==
    sc \in {[pc |-> "price", in |-> x, score |-> 0, ret |-> None] : x \in ScoreInputs}

\* score = 0.0, then the price section
ScorePrice ==
    /\ sc.pc = "price"
    /\ sc' = [sc EXCEPT !.score = @ + PricePoints(sc.in), !.pc = "size"]
    /\ UNCHANGED parseVars
    /\ UNCHANGED <<ean, rs, disk, flushed, srch, bl, gq, lg>>

\* the weight/volume section
ScoreSize ==
    /\ sc.pc = "size"
    /\ sc' = [sc EXCEPT !.score = @ + SizePoints(sc.in), !.pc = "name"]
    /\ UNCHANGED parseVars
    /\ UNCHANGED <<ean, rs, disk, flushed, srch, bl, gq, lg>>

\* the name overlap section
ScoreName ==
    /\ sc.pc = "name"
    /\ sc' = [sc EXCEPT !.score = @ + NamePoints(sc.in), !.pc = "return"]
    /\ UNCHANGED parseVars
    /\ UNCHANGED <<ean, rs, disk, flushed, srch, bl, gq, lg>>

\* return min(100, max(0, round(score)))
ScoreReturn ==
    /\ sc.pc = "return"
    /\ sc' = [sc EXCEPT !.ret = J_Int(Clamp(sc.score)), !.pc = "done"]
    /\ UNCHANGED parseVars
    /\ UNCHANGED <<ean, rs, disk, flushed, srch, bl, gq, lg>>

InitScore == ParseIdle /\ ScoreInit /\ ean = None /\ ResolveIdle /\ ClientIdle

NextScore ==
    \/ ScorePrice
    \/ ScoreSize
    \/ ScoreName
    \/ ScoreReturn

SpecScore == InitScore /\ [][NextScore]_vars

----------------------------------------------------------------------------
(* _calculate_ean_similarity                                               *)

\* re.sub(r"\D", "", s)
DigitsOnly(s) == SelectSeq(s, LAMBDA c : c \in Digits)

\* mutant of MatchingDigits: the count does not stop at the first mismatch
RECURSIVE MatchingDigits_NoBreak(_, _)
MatchingDigits_NoBreak(b1, b2) ==
    IF b1 # <<>> /\ b2 # <<>>
    THEN (IF Head(b1) = Head(b2) THEN 1 ELSE 0) + MatchingDigits_NoBreak(Tail(b1), Tail(b2))
    ELSE 0

\* the number of leading positions at which b1 and b2 agree
RECURSIVE MatchingDigits(_, _)
MatchingDigits(b1, b2) ==
    IF b1 # <<>> /\ b2 # <<>> /\ Head(b1) = Head(b2)
    THEN 1 + MatchingDigits(Tail(b1), Tail(b2))
    ELSE 0

\* mutant of PrefixTier: the floor below four matching digits is 0
PrefixTier_ZeroFloor(matching_digits, settings) ==
    IF matching_digits >= 12 THEN 95
    ELSE IF matching_digits = 11 THEN 92
    ELSE IF matching_digits = 10 THEN settings.eanScore10Plus
    ELSE IF matching_digits >= 8 THEN settings.eanScore8Plus
    ELSE IF matching_digits >= 6 THEN settings.eanScore6Plus
    ELSE IF matching_digits >= 4 THEN settings.eanScore4Plus
    ELSE 0

\* mutant of PrefixTier: eight and nine matching digits fall to the 6-digit tier
PrefixTier_EightLost(matching_digits, settings) ==
    IF matching_digits >= 12 THEN 95
    ELSE IF matching_digits = 11 THEN 92
    ELSE IF matching_digits = 10 THEN settings.eanScore10Plus
    ELSE IF matching_digits >= 6 THEN settings.eanScore6Plus
    ELSE IF matching_digits >= 4 THEN settings.eanScore4Plus
    ELSE 10

\* the tier table of the matching prefix length
PrefixTier(matching_digits, settings) ==
    IF matching_digits >= 12 THEN 95
    ELSE IF matching_digits = 11 THEN 92
    ELSE IF matching_digits = 10 THEN settings.eanScore10Plus
    ELSE IF matching_digits >= 8 THEN settings.eanScore8Plus
    ELSE IF matching_digits >= 6 THEN settings.eanScore6Plus
    ELSE IF matching_digits >= 4 THEN settings.eanScore4Plus
    ELSE 10

\* mutant of EanSimilarity: only the first barcode may carry the leading zero
EanSimilarity_OneSidedPad(barcode1, barcode2, settings) ==
    IF barcode1 = <<>> \/ barcode2 = <<>> THEN 0
    ELSE IF barcode1 = barcode2 THEN 100
    ELSE LET b1 == DigitsOnly(barcode1)
             b2 == DigitsOnly(barcode2)
         IN IF b1 = b2 THEN 100
            ELSE IF b1 = <<"0">> \o b2 THEN 95
            ELSE PrefixTier(MatchingDigits(b1, b2), settings)

\* mutant of EanSimilarity: the zero-pad test is missing
EanSimilarity_NoPad(barcode1, barcode2, settings) ==
    IF barcode1 = <<>> \/ barcode2 = <<>> THEN 0
    ELSE IF barcode1 = barcode2 THEN 100
    ELSE LET b1 == DigitsOnly(barcode1)
             b2 == DigitsOnly(barcode2)
         IN IF b1 = b2 THEN 100
            ELSE PrefixTier(MatchingDigits(b1, b2), settings)

\* the function: settings is what load_settings() returns inside it
EanSimilarity(barcode1, barcode2, settings) ==
    IF barcode1 = <<>> \/ barcode2 = <<>> THEN 0
    ELSE IF barcode1 = barcode2 THEN 100
    ELSE LET b1 == DigitsOnly(barcode1)
             b2 == DigitsOnly(barcode2)
         IN IF b1 = b2 THEN 100
            ELSE IF b1 = <<"0">> \o b2 \/ b2 = <<"0">> \o b1 THEN 95
            ELSE PrefixTier(MatchingDigits(b1, b2), settings)

\* inputs of the barcode scorer
Ean13 == <<"8","7","1","8","4","5","2","0","4","4","8","0","1">>

Ean12 == <<"7","1","8","4","5","2","0","4","4","8","0","1">>

Ean13Other == <<"8","7","1","8","4","5","2","0","9","9","9","9","9">>

\* Ean13 followed by one more digit
Ean14 == Ean13 \o <<"5">>

\* Ean13 with the digit at position k replaced by another digit
Differing(k) == [Ean13 EXCEPT ![k] = IF @ = "9" THEN "3" ELSE "9"]

Barcodes ==
    {Differing(k) : k \in 1..Len(Ean13)}
    \cup { Ean13, Ean12, Ean13Other, Ean14,
           <<"0","8","7","1","8","4","5","2","0","4","4","8","0","1">>,
           <<"8","7","1","8","-","4","5","2","0","-","4","4","8","0","1">>,
           <<"0"," ","8","7","1","8","4","5","2","0","4","4","8","0","1">>,
           <<"a","b","c">>,
           <<"x">>,
           <<"0">>,
           <<"8","7">>,
           <<>> }

EanDefaults ==
    [eanScore10Plus |-> 90, eanScore8Plus |-> 70, eanScore6Plus |-> 50, eanScore4Plus |-> 30]

\* every tier takes a value of 0..100 (ge=0, le=100 in the settings API)
EanSettings ==
    { EanDefaults,
      [eanScore10Plus |-> 100, eanScore8Plus |-> 100, eanScore6Plus |-> 100, eanScore4Plus |-> 100],
      [eanScore10Plus |-> 0, eanScore8Plus |-> 0, eanScore6Plus |-> 0, eanScore4Plus |-> 0],
      [eanScore10Plus |-> 30, eanScore8Plus |-> 50, eanScore6Plus |-> 70, eanScore4Plus |-> 90] }

EanInit ==
    ean \in {[pc |-> "call", barcode1 |-> a, barcode2 |-> b, settings |-> st, ret |-> None] :
                a \in Barcodes, b \in Barcodes, st \in EanSettings}

CalculateEanSimilarity ==
    /\ ean.pc = "call"
    /\ ean' = [ean EXCEPT !.ret = J_Int(EanSimilarity(ean.barcode1, ean.barcode2, ean.settings)),
                          !.pc = "done"]
    /\ UNCHANGED parseVars
    /\ UNCHANGED <<sc, rs, disk, flushed, srch, bl, gq, lg>>

InitEan == ParseIdle /\ sc = None /\ EanInit /\ ResolveIdle /\ ClientIdle

NextEan == CalculateEanSimilarity

SpecEan == InitEan /\ [][NextEan]_vars

----------------------------------------------------------------------------
(* _resolve_receipt_products, _batch_fetch_products and the match cache    *)

\* dicts are functions from keys to values: a key the dict does not hold is
\* outside its domain
EmptyDict == <<>>

Has(d, k) == k \in DOMAIN d

\* d[k] = v
SetField(d, k, v) == [x \in DOMAIN d \cup {k} |-> IF x = k THEN v ELSE d[x]]

\* the invocations that can be in flight on one event loop; r1 names the one
\* that is called first
Invocations == {"r1", "r2"}

First == "r1"

\* a cache entry as this code writes it, and as older versions wrote it
Entry(sku, confidence) == J_Dict([sku |-> sku, confidence |-> confidence])

LegacyEntry(sku) == J_Str(sku)

\* `if cached:` for the value of cache.get(cache_key)
CachedTruthy(cached) ==
    /\ cached # None
    /\ cached.t = "dict" => DOMAIN cached.v # {}
    /\ cached.t = "str" => cached.s # ""

\* mutant of CachedPair: a legacy entry reads with confidence 100
CachedPair_LegacyFull(cached) ==
    IF cached.t = "dict"
    THEN [sku |-> cached.v.sku,
          confidence |-> IF Has(cached.v, "confidence") THEN cached.v.confidence ELSE 50]
    ELSE [sku |-> cached.s, confidence |-> 100]

\* the (sku, confidence) pair phase 1 reads from a cache entry
CachedPair(cached) ==
    IF cached.t = "dict"
    THEN [sku |-> cached.v.sku,
          confidence |-> IF Has(cached.v, "confidence") THEN cached.v.confidence ELSE 50]
    ELSE [sku |-> cached.s, confidence |-> 50]

\* name = item.get("name", "").strip()
NameOf(item) == IF Has(item, "name") THEN Strip(item.name) ELSE <<>>

\* cache_key = name.upper()
CacheKey(name) == Upper(name)

\* `x or y` operand test for a price: None and 0.0 are falsy
PriceTruthy(item, k) == Has(item, k) /\ item[k] # None /\ item[k].m # 0

\* round((item.get("unitPrice") or item.get("price") or 0) * 100)
TargetCents(item) ==
    LET v == IF PriceTruthy(item, "unitPrice") THEN item.unitPrice
             ELSE IF PriceTruthy(item, "price") THEN item.price
             ELSE Norm(0, 0)
    IN IF v.m >= 0 THEN RoundHalfEven(v.m * 100, Pow10(v.e))
       ELSE 0 - RoundHalfEven((0 - v.m) * 100, Pow10(v.e))

\* _compute_confidence as one call
ComputeConfidence(name, target_cents, p, settings) ==
    LET in == [receipt_name |-> name, receipt_price_cents |-> target_cents,
               product |-> p, settings |-> settings]
    IN Clamp(PricePoints(in) + SizePoints(in) + NamePoints(in))

\* mutant of EffectiveThreshold: strictMatching is not read
EffectiveThreshold_NoStrict(settings) == settings.confidenceThreshold

\* threshold = settings.get("confidenceThreshold", 50); strictMatching raises
\* it to at least 70
EffectiveThreshold(settings) ==
    IF settings.strictMatching
    THEN Max(settings.confidenceThreshold, 70)
    ELSE settings.confidenceThreshold

\* mutant of Phase1: the isDeposit flag is not read
RECURSIVE Phase1_DepositsToo(_, _, _, _)
Phase1_DepositsToo(its, cache, k, acc) ==
    IF k > Len(its) THEN acc
    ELSE LET name == NameOf(its[k])
             cache_key == CacheKey(name)
             cached == IF Has(cache, cache_key) THEN cache[cache_key] ELSE None
         IN IF name = <<>>
            THEN Phase1_DepositsToo(its, cache, k + 1, acc)
            ELSE IF CachedTruthy(cached)
            THEN Phase1_DepositsToo(its, cache, k + 1,
                        [acc EXCEPT !.cached_skus = SetField(@, k, CachedPair(cached))])
            ELSE Phase1_DepositsToo(its, cache, k + 1,
                        [acc EXCEPT !.items_to_search = Append(@, k)])

\* phase 1 over items[k..]: the items to search and the cache hits
RECURSIVE Phase1(_, _, _, _)
Phase1(its, cache, k, acc) ==
    IF k > Len(its) THEN acc
    ELSE LET name == NameOf(its[k])
             cache_key == CacheKey(name)
             cached == IF Has(cache, cache_key) THEN cache[cache_key] ELSE None
         IN IF name = <<>> \/ (Has(its[k], "isDeposit") /\ its[k].isDeposit)
            THEN Phase1(its, cache, k + 1, acc)
            ELSE IF CachedTruthy(cached)
            THEN Phase1(its, cache, k + 1,
                        [acc EXCEPT !.cached_skus = SetField(@, k, CachedPair(cached))])
            ELSE Phase1(its, cache, k + 1,
                        [acc EXCEPT !.items_to_search = Append(@, k)])

\* best_sku = None, best_score = -1 (found is FALSE while best_sku is None)
NoBest == [found |-> FALSE, sku |-> "", score |-> 0 - 1]

\* mutant of Better: a later candidate with an equal score wins
Better_LastWins(best, sku, conf) ==
    IF conf >= best.score THEN [found |-> TRUE, sku |-> sku, score |-> conf] ELSE best

\* if conf > best_score: best_score = conf; best_sku = sku
Better(best, sku, conf) ==
    IF conf > best.score THEN [found |-> TRUE, sku |-> sku, score |-> conf] ELSE best

\* the inner loop of phase 4: best_sku and best_score over the candidates in
\* search order; a candidate without fetched detail is skipped
RECURSIVE BestCandidate(_, _, _, _, _, _)
BestCandidate(candidates, products_by_sku, name, target_cents, settings, best) ==
    IF candidates = <<>> THEN best
    ELSE BestCandidate(Tail(candidates), products_by_sku, name, target_cents, settings,
            IF Has(products_by_sku, Head(candidates))
            THEN Better(best, Head(candidates),
                        ComputeConfidence(name, target_cents,
                                          products_by_sku[Head(candidates)], settings))
            ELSE best)

\* if best_sku and best_score >= 0: the cache entry and the cached_skus entry
\* of item idx
Record(f, idx, best) ==
    IF ~best.found \/ best.sku = "" \/ best.score < 0
    THEN f
    ELSE [f EXCEPT
            !.cache = SetField(@, CacheKey(NameOf(f.items[idx])), Entry(best.sku, best.score)),
            !.cached_skus = SetField(@, idx, [sku |-> best.sku, confidence |-> best.score])]

\* mutant of ScoreItem: an item whose name was matched earlier in the run takes
\* that match
ScoreItem_SharedWinner(f, idx) ==
    IF ~Has(f.candidates_per_item, idx) \/ f.candidates_per_item[idx] = <<>>
    THEN f
    ELSE IF Has(f.cache, CacheKey(NameOf(f.items[idx])))
    THEN [f EXCEPT !.cached_skus =
                SetField(@, idx, CachedPair(f.cache[CacheKey(NameOf(f.items[idx]))]))]
    ELSE Record(f, idx,
                BestCandidate(f.candidates_per_item[idx], f.products_by_sku,
                              NameOf(f.items[idx]), TargetCents(f.items[idx]),
                              f.settings, NoBest))

\* one iteration of phase 4, for item idx of items_to_search
ScoreItem(f, idx) ==
    IF ~Has(f.candidates_per_item, idx) \/ f.candidates_per_item[idx] = <<>>
    THEN f
    ELSE Record(f, idx,
                BestCandidate(f.candidates_per_item[idx], f.products_by_sku,
                              NameOf(f.items[idx]), TargetCents(f.items[idx]),
                              f.settings, NoBest))

\* phase 4 over items_to_search[k..]: f carries cache and cached_skus
RECURSIVE Phase4(_, _)
Phase4(f, k) ==
    IF k > Len(f.items_to_search) THEN f
    ELSE Phase4(ScoreItem(f, f.items_to_search[k]), k + 1)

\* p.get(k)
Get(p, k) == IF Has(p, k) THEN p[k] ELSE None

\* the catalog fields phase 5 copies from the detail p
Enriched(item, sku, p) ==
    SetField(SetField(SetField(SetField(SetField(SetField(SetField(item,
        "sku", sku),
        "fullTitle", Get(p, "title")),
        "subtitle", Get(p, "subtitle")),
        "image", Get(p, "image")),
        "brand", Get(p, "brand")),
        "link", Get(p, "link")),
        "catalogPrice", Get(p, "price"))

\* mutant of EnrichItem: the threshold test is missing
EnrichItem_NoThreshold(item, entry, threshold, products_by_sku) ==
    LET it == SetField(item, "matchConfidence", entry.confidence) IN
    IF Has(products_by_sku, entry.sku)
    THEN Enriched(it, entry.sku, products_by_sku[entry.sku])
    ELSE it

\* mutant of EnrichItem: matchConfidence is set only next to the catalog fields
EnrichItem_NeedsDetail(item, entry, threshold, products_by_sku) ==
    IF entry.confidence >= threshold /\ Has(products_by_sku, entry.sku)
    THEN Enriched(SetField(item, "matchConfidence", entry.confidence),
                  entry.sku, products_by_sku[entry.sku])
    ELSE item

\* one iteration of phase 5 for an item with a cached_skus entry
EnrichItem(item, entry, threshold, products_by_sku) ==
    LET it == SetField(item, "matchConfidence", entry.confidence) IN
    IF entry.confidence < threshold THEN it
    ELSE IF Has(products_by_sku, entry.sku)
    THEN Enriched(it, entry.sku, products_by_sku[entry.sku])
    ELSE it

\* phase 5: every item in list order
Phase5(f) ==
    [k \in 1..Len(f.items) |->
        IF Has(f.cached_skus, k)
        THEN EnrichItem(f.items[k], f.cached_skus[k], f.threshold, f.products_by_sku)
        ELSE f.items[k]]

\* ---- the gateway: site search and catalog ----

SkuGone == "100AA"
SkuPak == "101AA"
SkuPakTwin == "102AA"
SkuMelk == "103AA"
SkuBrood == "104AA"

\* a product of the GraphQL products(skus:) answer
Detail(sku, product) ==
    product @@ [sku |-> sku, image |-> "img/" \o sku, brand |-> "Jumbo", link |-> "/producten/" \o sku]

\* the catalog: SkuGone is a search hit the products query has no answer for
Catalog ==
    (SkuPak :> Detail(SkuPak, Product(MelkTitle, MelkSub, 525, J_Int(500))))
    @@ (SkuPakTwin :> Detail(SkuPakTwin, Product(MelkTitle, MelkSub, 525, J_Int(500))))
    @@ (SkuMelk :> Detail(SkuMelk, Product(MelkTitle, <<>>, 189, None)))
    @@ (SkuBrood :> Detail(SkuBrood, Product(BroodTitle, <<>>, 1000, None)))

MELK == <<"M","E","L","K">>
ColaName == <<"C","o","l","a"," ","1",",","5","L">>
KaasName == <<"K","A","A","S">>

\* what _search_product_skus returns for a name when the site answers: the
\* unique SKUs of the result page, in page order
Site(name) ==
    IF name = MELK THEN <<SkuGone, SkuPak, SkuPakTwin, SkuMelk>>
    ELSE IF name = ColaName THEN <<SkuBrood>>
    ELSE <<>>

\* {p["sku"]: p for p in data.get("products", [])}
FetchAnswer(skus) == [s \in skus \cap DOMAIN Catalog |-> Catalog[s]]

\* ---- the inputs ----

\* an item as _parse_receipt_json builds it
ReceiptItem(name, price, quantity, unitPrice) ==
    [name |-> name, price |-> price, quantity |-> quantity, unitPrice |-> unitPrice,
     isPromo |-> FALSE, isDeposit |-> FALSE]

\* a deposit line as _parse_receipt_json builds it
DepositItem ==
    [ReceiptItem(STATIEGELD, Norm(25, 2), 1, Norm(25, 2)) EXCEPT !.isDeposit = TRUE]

ItemPool ==
    { ReceiptItem(MELK, Norm(5, 0), 1, Norm(5, 0)),
      ReceiptItem(MELK, Norm(378, 2), 2, Norm(189, 2)),
      ReceiptItem(ColaName, Norm(189, 2), 1, Norm(189, 2)),
      ReceiptItem(KaasName, Norm(1, 0), 1, Norm(1, 0)),
      DepositItem,
      ReceiptItem(<<" ">>, Norm(1, 0), 1, Norm(1, 0)) }

MaxItems == 2

ItemLists == SeqsUpTo(ItemPool, MaxItems)

MatchSettings(enabled, threshold, strict) ==
    DefaultWeights(TRUE, TRUE, TRUE)
    @@ [productMatchingEnabled |-> enabled, confidenceThreshold |-> threshold,
        strictMatching |-> strict]

ResolveSettings ==
    { MatchSettings(FALSE, 50, FALSE),
      MatchSettings(TRUE, 50, FALSE),
      MatchSettings(TRUE, 50, TRUE),
      MatchSettings(TRUE, 90, TRUE) }

InitialCaches == { EmptyDict, CacheKey(MELK) :> LegacyEntry(SkuPak) }

\* the frame of an invocation at its call
Frame(its, settings) ==
    [pc |-> "start", items |-> its, settings |-> settings, threshold |-> None,
     cache |-> None, items_to_search |-> <<>>, cached_skus |-> EmptyDict,
     candidates_per_item |-> EmptyDict, all_candidate_skus |-> {}, k |-> 1,
     all_skus |-> {}, products_by_sku |-> EmptyDict,
     \* history
     given |-> its, loaded |-> FALSE, cache0 |-> None, seen |-> 0, hits |-> {}, failed |-> {},
     fetch |-> "none", saves |-> 0]

ResolveInit ==
    /\ disk \in InitialCaches
    /\ flushed = <<>>
    /\ \E its \in ItemLists :
         rs \in [Invocations -> {Frame(its, st) : st \in ResolveSettings}]

\* ---- the steps ----

\* the code between two awaits runs without interleaving on the event loop:
\* phases 4 and 5 and the save follow the batch fetch without an await
SyncPcs == {"score", "enrich", "save"}

CanRun(p) == \A q \in Invocations \ {p} : rs[q].pc \notin SyncPcs

\* phase 3 up to the await: all_skus, and the fetch only if it is non-empty
ToFetch(f) ==
    LET cached_sku_set == {f.cached_skus[x].sku : x \in DOMAIN f.cached_skus}
        all_skus == f.all_candidate_skus \cup cached_sku_set
    IN IF all_skus # {}
       THEN [f EXCEPT !.all_skus = all_skus, !.pc = "fetch"]
       ELSE [f EXCEPT !.all_skus = all_skus, !.products_by_sku = EmptyDict, !.pc = "score"]

\* mutant of AfterSearch: the batch fetch is issued after the first search
AfterSearch_Eager(f) == ToFetch([f EXCEPT !.k = @ + 1])

\* after the search of items_to_search[k]: the next search, or phase 3
AfterSearch(f) ==
    IF f.k < Len(f.items_to_search)
    THEN [f EXCEPT !.k = @ + 1]
    ELSE ToFetch([f EXCEPT !.k = @ + 1])

\* mutant of ReturnsEarly: the productMatchingEnabled switch is not read
ReturnsEarly_EmptyOnly(f) == f.items = <<>>

\* if not items: return items / if not productMatchingEnabled: return items
ReturnsEarly(f) == f.items = <<>> \/ ~f.settings.productMatchingEnabled

\* the call up to its first await: the early returns, the threshold, the cache
\* load and phase 1
Begin(p) ==
    /\ rs[p].pc = "start"
    /\ p # First => rs[First].pc # "start"
    /\ CanRun(p)
    /\ LET f == rs[p] IN
       IF ReturnsEarly(f)
       THEN rs' = [rs EXCEPT ![p].pc = "done"]
       ELSE LET ph == Phase1(f.items, disk, 1,
                             [items_to_search |-> <<>>, cached_skus |-> EmptyDict])
                g == [f EXCEPT !.threshold = EffectiveThreshold(f.settings),
                               !.cache = disk,
                               !.items_to_search = ph.items_to_search,
                               !.cached_skus = ph.cached_skus,
                               !.loaded = TRUE,
                               !.cache0 = disk,
                               !.seen = Len(flushed),
                               !.hits = DOMAIN ph.cached_skus]
            IN rs' = [rs EXCEPT ![p] = IF g.items_to_search # <<>>
                                       THEN [g EXCEPT !.pc = "search"]
                                       ELSE ToFetch(g)]
    /\ UNCHANGED <<disk, flushed>>
    /\ UNCHANGED parseVars
    /\ UNCHANGED <<sc, ean, srch, bl, gq, lg>>

\* results = await self._search_product_skus(name) returns
SearchReturns(p) ==
    /\ rs[p].pc = "search"
    /\ CanRun(p)
    /\ LET f == rs[p]
           idx == f.items_to_search[f.k]
           results == Site(NameOf(f.items[idx]))
       IN rs' = [rs EXCEPT ![p] = AfterSearch(
                   [f EXCEPT !.candidates_per_item = SetField(@, idx, results),
                             !.all_candidate_skus = @ \cup {results[x] : x \in DOMAIN results}])]
    /\ UNCHANGED <<disk, flushed>>
    /\ UNCHANGED parseVars
    /\ UNCHANGED <<sc, ean, srch, bl, gq, lg>>

\* mutant of SearchRaises: the exception ends the call
SearchRaises_Aborts(p) ==
    /\ rs[p].pc = "search"
    /\ CanRun(p)
    /\ rs' = [rs EXCEPT ![p].failed = @ \cup {rs[p].items_to_search[rs[p].k]},
                        ![p].pc = "done"]
    /\ UNCHANGED <<disk, flushed>>
    /\ UNCHANGED parseVars
    /\ UNCHANGED <<sc, ean, srch, bl, gq, lg>>

\* the search raises: except Exception, log and go on
SearchRaises(p) ==
    /\ rs[p].pc = "search"
    /\ CanRun(p)
    /\ LET f == rs[p]
           idx == f.items_to_search[f.k]
       IN rs' = [rs EXCEPT ![p] = AfterSearch([f EXCEPT !.failed = @ \cup {idx}])]
    /\ UNCHANGED <<disk, flushed>>
    /\ UNCHANGED parseVars
    /\ UNCHANGED <<sc, ean, srch, bl, gq, lg>>

\* _batch_fetch_products returns the answer of the products query
FetchReturns(p) ==
    /\ rs[p].pc = "fetch"
    /\ CanRun(p)
    /\ rs' = [rs EXCEPT ![p].products_by_sku = FetchAnswer(rs[p].all_skus),
                        ![p].fetch = "ok",
                        ![p].pc = "score"]
    /\ UNCHANGED <<disk, flushed>>
    /\ UNCHANGED parseVars
    /\ UNCHANGED <<sc, ean, srch, bl, gq, lg>>

\* graphql_request raises inside _batch_fetch_products: it returns {}
FetchFails(p) ==
    /\ rs[p].pc = "fetch"
    /\ CanRun(p)
    /\ rs' = [rs EXCEPT ![p].products_by_sku = EmptyDict,
                        ![p].fetch = "failed",
                        ![p].pc = "score"]
    /\ UNCHANGED <<disk, flushed>>
    /\ UNCHANGED parseVars
    /\ UNCHANGED <<sc, ean, srch, bl, gq, lg>>

\* mutant of Score: phase 4 writes the cache file as it records a match
Score_WriteThrough(p) ==
    /\ rs[p].pc = "score"
    /\ rs' = [rs EXCEPT ![p] = [Phase4(rs[p], 1) EXCEPT !.pc = "enrich"]]
    /\ disk' = Phase4(rs[p], 1).cache
    /\ UNCHANGED flushed
    /\ UNCHANGED parseVars
    /\ UNCHANGED <<sc, ean, srch, bl, gq, lg>>

\* phase 4
Score(p) ==
    /\ rs[p].pc = "score"
    /\ rs' = [rs EXCEPT ![p] = [Phase4(rs[p], 1) EXCEPT !.pc = "enrich"]]
    /\ UNCHANGED <<disk, flushed>>
    /\ UNCHANGED parseVars
    /\ UNCHANGED <<sc, ean, srch, bl, gq, lg>>

\* phase 5
Enrich(p) ==
    /\ rs[p].pc = "enrich"
    /\ rs' = [rs EXCEPT ![p].items = Phase5(rs[p]), ![p].pc = "save"]
    /\ UNCHANGED <<disk, flushed>>
    /\ UNCHANGED parseVars
    /\ UNCHANGED <<sc, ean, srch, bl, gq, lg>>

\* mutant of Save: the save merges into the file instead of replacing it
Save_Merge(p) ==
    /\ rs[p].pc = "save"
    /\ disk' = rs[p].cache @@ disk
    /\ flushed' = Append(flushed, p)
    /\ rs' = [rs EXCEPT ![p].saves = @ + 1, ![p].pc = "done"]
    /\ UNCHANGED parseVars
    /\ UNCHANGED <<sc, ean, srch, bl, gq, lg>>

\* self._save_receipt_sku_cache(cache); return items
Save(p) ==
    /\ rs[p].pc = "save"
    /\ disk' = rs[p].cache
    /\ flushed' = Append(flushed, p)
    /\ rs' = [rs EXCEPT ![p].saves = @ + 1, ![p].pc = "done"]
    /\ UNCHANGED parseVars
    /\ UNCHANGED <<sc, ean, srch, bl, gq, lg>>

InitResolve == ParseIdle /\ sc = None /\ ean = None /\ ResolveInit /\ ClientIdle

NextResolve ==
    \E p \in Invocations :
        \/ Begin(p)
        \/ SearchReturns(p)
        \/ SearchRaises(p)
        \/ FetchReturns(p)
        \/ FetchFails(p)
        \/ Score(p)
        \/ Enrich(p)
        \/ Save(p)

SpecResolve == InitResolve /\ [][NextResolve]_vars

\* ---- the clear-cache endpoint next to one resolve call ----

\* the mark clear_receipt_sku_cache leaves in the history of cache file writes
Cleared == "clear"

ClearedAt == {n \in 1..Len(flushed) : flushed[n] = Cleared}

\* mutant of ClearCache: the clear also empties the cache a call has loaded
ClearCache_DropsLoaded ==
    /\ ClearedAt = {}
    /\ \A q \in Invocations : rs[q].pc \notin SyncPcs
    /\ disk' = EmptyDict
    /\ flushed' = Append(flushed, Cleared)
    /\ rs' = [q \in Invocations |->
                IF rs[q].loaded THEN [rs[q] EXCEPT !.cache = EmptyDict] ELSE rs[q]]
    /\ UNCHANGED parseVars
    /\ UNCHANGED <<sc, ean, srch, bl, gq, lg>>

\* POST /api/settings/clear-cache: clear_receipt_sku_cache unlinks the file (a
\* later load of the missing file reads {}); the handler has no await, so it
\* runs between the awaits of a resolve call; one clear per behaviour
ClearCache ==
    /\ ClearedAt = {}
    /\ \A q \in Invocations : rs[q].pc \notin SyncPcs
    /\ disk' = EmptyDict
    /\ flushed' = Append(flushed, Cleared)
    /\ UNCHANGED rs
    /\ UNCHANGED parseVars
    /\ UNCHANGED <<sc, ean, srch, bl, gq, lg>>

\* one resolve call (the other invocation has product matching disabled and
\* returns at once)
ClearInit ==
    /\ disk \in InitialCaches
    /\ flushed = <<>>
    /\ \E its \in ItemLists, st \in ResolveSettings :
         rs = [p \in Invocations |->
                 IF p = First THEN Frame(its, st)
                 ELSE Frame(its, MatchSettings(FALSE, 50, FALSE))]

InitClear == ParseIdle /\ sc = None /\ ean = None /\ ClearInit /\ ClientIdle

NextClear == NextResolve \/ ClearCache

SpecClear == InitClear /\ [][NextClear]_vars

----------------------------------------------------------------------------
(* Claims about _parse_receipt_json                                        *)

IsListOf(j, P(_)) == j.t = "list" /\ \A k \in 1..Len(j.v) : P(j.v[k])

HasTyped(j, key, P(_)) == j.t = "dict" /\ (key \in DOMAIN j.v => P(j.v[key]))

IsStrValue(j) == j.t = "str"
TokenShape(j) == HasTyped(j, "text", IsStrValue)
TokensShape(j) == IsListOf(j, TokenShape)
LineShape(j) == HasTyped(j, "texts", TokensShape)
LinesShape(j) == IsListOf(j, LineShape)
ObjectShape(j) == HasTyped(j, "textLines", LinesShape)
ObjectsShape(j) == IsListOf(j, ObjectShape)
SectionShape(j) == HasTyped(j, "textObjects", ObjectsShape)

\* the document has the nested arrays the parser expects, with sections, text
\* objects, lines and tokens of the expected types
ExpectedShape(d) ==
    /\ d.t = "dict" /\ "documents" \in DOMAIN d.v
    /\ d.v.documents.t = "list" /\ d.v.documents.v # <<>>
    /\ LET d1 == d.v.documents.v[1] IN
       /\ d1.t = "dict" /\ "documents" \in DOMAIN d1.v
       /\ d1.v.documents.t = "list" /\ d1.v.documents.v # <<>>
       /\ LET d2 == d1.v.documents.v[1] IN
          /\ d2.t = "dict" /\ "printSections" \in DOMAIN d2.v
          /\ IsListOf(d2.v.printSections, SectionShape)

Undecodable(raw) == raw.kind \in {"none", "garbage"}

\* C1: parse never raises: undecodable input returns the "Invalid receipt
\* JSON" result, a document without the expected nested arrays or with wrongly
\* typed sections, text objects, lines or tokens returns the "Unexpected
\* receipt structure" result, and every other input returns a normal result.
C1_ParseNeverRaises ==
    /\ pc # "raised"
    /\ pc = "done" =>
         IF Undecodable(raw_json)
         THEN result = ParseErrorResult("Invalid receipt JSON")
         ELSE IF ~ExpectedShape(JsonLoads(raw_json).v)
         THEN result = ParseErrorResult("Unexpected receipt structure")
         ELSE "parseError" \notin DOMAIN result

\* C2: in every iteration of the outer loop the cursor strictly increases, and
\* it never moves backwards.
C2_CursorAdvances ==
    [][/\ i' >= i
       /\ (InLoop /\ pc' = "walk") => i' > i]_vars

C2_Witness ==
    /\ pc = "done" /\ last = "total"
    /\ Len(text_objects) >= 3 /\ i = Len(text_objects) /\ items # <<>>

\* c is an order-preserving merge of a and b
RECURSIVE Interleaves(_, _, _)
Interleaves(a, b, c) ==
    IF c = <<>> THEN a = <<>> /\ b = <<>>
    ELSE \/ a # <<>> /\ Head(a) = Head(c) /\ Interleaves(Tail(a), b, Tail(c))
         \/ b # <<>> /\ Head(b) = Head(c) /\ Interleaves(a, Tail(b), Tail(c))

\* C3: in every parse result, items and deposits partition the line items
\* created during the walk: deposits hold exactly the isDeposit items, items
\* the others, nothing is lost or duplicated, and each list keeps document order.
C3_Partition ==
    (pc = "done" /\ "deposits" \in DOMAIN result) =>
        /\ \A k \in 1..Len(result.deposits) : result.deposits[k].isDeposit = TRUE
        /\ \A k \in 1..Len(result.items) : result.items[k].isDeposit = FALSE
        /\ Len(result.items) + Len(result.deposits) = Len(items)
        /\ Interleaves(result.items, result.deposits, items)

C3_Witness ==
    /\ pc = "done" /\ "deposits" \in DOMAIN result
    /\ Len(result.deposits) >= 1 /\ Len(result.items) >= 2
    /\ items[1].isDeposit = FALSE /\ items[2].isDeposit = TRUE

\* the line at the cursor is met in the items state and its first token
\* matches the quantity x unit-price pattern
AtQuantityPattern ==
    /\ InLoop /\ in_items
    /\ AllStr(text_objects[i + 1])
    /\ ~IsHeaderLine(Joined(text_objects[i + 1]))
    /\ QtyMatch(FirstOf(text_objects[i + 1])).ok

\* C4: while in the items state, a line matching the quantity x unit-price
\* pattern never creates a new line item; met before any item has been
\* appended it is dropped and the item list stays empty.
C4_QuantityLineCreatesNoItem ==
    [][AtQuantityPattern => Len(items') = Len(items)]_vars

\* C5: a quantity line changes only quantity, unitPrice and price of the most
\* recently appended item; every other item keeps its fields (an item with no
\* quantity line after it keeps the quantity 1 and the price it was created
\* with), and the receipt total is set by the total line only.
C5_QuantityLineFrame ==
    [][/\ Len(items') >= Len(items)
       /\ \A k \in 1..Len(items) :
             items'[k] # items[k] =>
                /\ k = Len(items)
                /\ AtQuantityPattern
                /\ items'[k].name = items[k].name
                /\ items'[k].isPromo = items[k].isPromo
                /\ items'[k].isDeposit = items[k].isDeposit
                /\ items'[k].quantity = QtyMatch(FirstOf(text_objects[i + 1])).qty
                /\ items'[k].unitPrice = QtyMatch(FirstOf(text_objects[i + 1])).unit
       /\ Len(items') > Len(items) =>
             /\ Len(items') = Len(items) + 1
             /\ items'[Len(items')].quantity = 1
             /\ items'[Len(items')].unitPrice = items'[Len(items')].price
       /\ total' # total =>
             /\ Takes("total")
             /\ total' = LastFloat(text_objects[i + 1]).v]_vars

C5_Witness ==
    /\ last = "quantity" /\ Len(items) = 2
    /\ items[1].quantity = 1 /\ items[1].price = items[1].unitPrice
    /\ items[2].quantity = 2 /\ items[2].price # items[2].unitPrice

----------------------------------------------------------------------------
(* Claims about _compute_confidence                                        *)

\* C6: score returns an integer in [0,100] for every input, every combination
\* of the three weights and every combination of the three toggles.
C6_ScoreInRange ==
    sc.pc = "done" => sc.ret.t = "int" /\ sc.ret.n \in 0..100

C6_Witness ==
    /\ sc.pc = "done" /\ sc.score > 100 * 1000 /\ sc.ret.n = 100
    /\ sc.in.settings.priceMatchWeight + sc.in.settings.weightMatchWeight
         + sc.in.settings.nameMatchWeight > 100

\* the price section has run for a candidate priced c cents without a promo
\* price, with price cap 40 and a receipt price of 500 cents
PriceCase(c) ==
    /\ sc.pc = "size"
    /\ sc.in.settings.usePriceMatching
    /\ sc.in.settings.priceMatchWeight = 40
    /\ sc.in.receipt_price_cents = 500
    /\ sc.in.product.price.price = c
    /\ ~Truthy(sc.in.product.price.promoPrice)

\* C7 as stated: with cap 40 and receipt price 500, a candidate at 525 cents
\* scores 32 price points and a candidate at 551 cents scores 25.
C7_PriceBoundaryAsStated ==
    /\ PriceCase(525) => sc.score = 32 * 1000
    /\ PriceCase(551) => sc.score = 25 * 1000

\* C7 amended: with cap 40 and receipt price 500 (no promo price), a candidate
\* at 525 cents scores 32 price points and a candidate at 551 cents (10.2%
\* difference, the "<= 20%" tier) scores 15; 550 cents is the last price that
\* scores 25.
C7_PriceBoundary ==
    /\ PriceCase(525) => sc.score = 32 * 1000
    /\ PriceCase(551) => sc.score = 15 * 1000
    /\ PriceCase(550) => sc.score = 25 * 1000

C7_Witness == PriceCase(551) /\ sc.score = 15 * 1000

----------------------------------------------------------------------------
(* Claims about _calculate_ean_similarity                                  *)

EanDone == ean.pc = "done"

ZeroPadded(x, y) == x = <<"0">> \o y

\* C8 as stated: similarity is 0 if either input is empty; otherwise it is 100
\* exactly when the digit strings are equal, and 95 when one digit string is
\* the other with one "0" prepended.
C8_SimilarityAsStated ==
    EanDone =>
      LET b1 == DigitsOnly(ean.barcode1)
          b2 == DigitsOnly(ean.barcode2)
      IN IF ean.barcode1 = <<>> \/ ean.barcode2 = <<>> THEN ean.ret.n = 0
         ELSE /\ (ean.ret.n = 100) <=> (b1 = b2)
              /\ (ZeroPadded(b1, b2) \/ ZeroPadded(b2, b1)) => ean.ret.n = 95

\* no configured prefix tier is worth 100 points
NoTierIs100(st) ==
    /\ st.eanScore10Plus # 100 /\ st.eanScore8Plus # 100
    /\ st.eanScore6Plus # 100 /\ st.eanScore4Plus # 100

\* C8 amended: similarity is 0 if either input is empty; otherwise it is 100
\* when the digit strings are equal and 95 when one is the other with one "0"
\* prepended; a result of 100 means equal digit strings provided no prefix tier
\* is configured to 100 (as with the defaults).
C8_Similarity ==
    EanDone =>
      LET b1 == DigitsOnly(ean.barcode1)
          b2 == DigitsOnly(ean.barcode2)
      IN IF ean.barcode1 = <<>> \/ ean.barcode2 = <<>> THEN ean.ret.n = 0
         ELSE /\ b1 = b2 => ean.ret.n = 100
              /\ (ean.ret.n = 100 /\ NoTierIs100(ean.settings)) => b1 = b2
              /\ (ZeroPadded(b1, b2) \/ ZeroPadded(b2, b1)) => ean.ret.n = 95

C8_Witness ==
    /\ EanDone /\ ean.ret.n = 95
    /\ ean.barcode1 # ean.barcode2
    /\ ZeroPadded(DigitsOnly(ean.barcode1), DigitsOnly(ean.barcode2))
    /\ ean.barcode1 # DigitsOnly(ean.barcode1)

EanCall(a, b) == EanDone /\ ean.barcode1 = a /\ ean.barcode2 = b

\* C9 as stated: similarity("8718452044801","8718452044801") = 100 and
\* similarity("718452044801","8718452044801") = 95.
C9_ExamplesAsStated ==
    /\ EanCall(Ean13, Ean13) => ean.ret.n = 100
    /\ EanCall(Ean12, Ean13) => ean.ret.n = 95

\* C9 amended: similarity("8718452044801","8718452044801") = 100 and
\* similarity("718452044801","8718452044801") = 10: the second barcode is the
\* first with an "8" prepended, not a "0", and the two share no leading digit.
C9_Examples ==
    /\ EanCall(Ean13, Ean13) => ean.ret.n = 100
    /\ EanCall(Ean12, Ean13) => ean.ret.n = 10

C9_Witness == EanCall(Ean12, Ean13) /\ ean.ret.n = 10

\* C10 as stated: similarity("8718452044801","8718452099999") is the score of
\* the 4-digit matching-prefix tier (eanScore4Plus).
C10_PrefixExampleAsStated ==
    EanCall(Ean13, Ean13Other) => ean.ret.n = ean.settings.eanScore4Plus

\* C10 amended: similarity("8718452044801","8718452099999") is the score of
\* the 8-digit matching-prefix tier (eanScore8Plus, 70 by default): the two
\* barcodes share the eight leading digits 87184520.
C10_PrefixExample ==
    EanCall(Ean13, Ean13Other) =>
        /\ ean.ret.n = ean.settings.eanScore8Plus
        /\ ean.settings = EanDefaults => ean.ret.n = 70

C10_Witness ==
    EanCall(Ean13, Ean13Other) /\ ean.settings = EanDefaults /\ ean.ret.n = 70

----------------------------------------------------------------------------
(* Claims about _resolve_receipt_products                                  *)

CatalogFields == {"sku", "fullTitle", "subtitle", "image", "brand", "link", "catalogPrice"}

HasCatalogFields(item) == CatalogFields \subseteq DOMAIN item

NoCatalogFields(item) == CatalogFields \cap DOMAIN item = {}

\* invocation p has run its phase 4 / its phase 5
Scored(p) == rs[p].pc \in {"enrich", "save", "done"}

Enrichment(p) == rs[p].pc \in {"save", "done"}

\* C11: with product matching disabled, resolve returns the items with no
\* field of any item changed, and issues no candidate search, no batch fetch
\* and no read or write of the match cache.
C11_DisabledIsInert ==
    \A p \in Invocations :
        ~rs[p].settings.productMatchingEnabled =>
            /\ rs[p].pc \in {"start", "done"}
            /\ rs[p].items = rs[p].given
            /\ ~rs[p].loaded /\ rs[p].cache = None
            /\ rs[p].candidates_per_item = EmptyDict /\ rs[p].failed = {}
            /\ rs[p].fetch = "none"
            /\ rs[p].saves = 0
            /\ \A n \in 1..Len(flushed) : flushed[n] # p

C11_Witness ==
    \E p \in Invocations :
        /\ ~rs[p].settings.productMatchingEnabled
        /\ rs[p].pc = "done"
        /\ Len(rs[p].given) = MaxItems
        /\ \E k \in 1..Len(rs[p].given) : Has(disk, CacheKey(NameOf(rs[p].given[k])))

\* T = max(confidenceThreshold, 70) under strictMatching, confidenceThreshold
\* otherwise
ThresholdOf(settings) ==
    IF settings.strictMatching
    THEN (IF settings.confidenceThreshold >= 70 THEN settings.confidenceThreshold ELSE 70)
    ELSE settings.confidenceThreshold

\* C12: resolve copies the catalog fields onto an item only when the item's
\* confidence is >= T; for an item whose confidence is < T it sets
\* matchConfidence and leaves every other field of the item unchanged.
C12_ThresholdGate ==
    \A p \in Invocations :
        Enrichment(p) =>
            \A k \in 1..Len(rs[p].items) :
                LET item == rs[p].items[k]
                    T == ThresholdOf(rs[p].settings)
                IN /\ ~NoCatalogFields(item) =>
                        /\ Has(rs[p].cached_skus, k)
                        /\ rs[p].cached_skus[k].confidence >= T
                   /\ (Has(rs[p].cached_skus, k) /\ rs[p].cached_skus[k].confidence < T) =>
                        item = SetField(rs[p].given[k], "matchConfidence",
                                        rs[p].cached_skus[k].confidence)

C12_Witness ==
    /\ \E p \in Invocations, k \in 1..MaxItems :
        /\ Enrichment(p) /\ k <= Len(rs[p].items)
        /\ rs[p].settings.strictMatching /\ rs[p].settings.confidenceThreshold = 50
        /\ Has(rs[p].cached_skus, k)
        /\ rs[p].cached_skus[k].confidence >= 50 /\ rs[p].cached_skus[k].confidence < 70
        /\ Has(rs[p].items[k], "matchConfidence") /\ NoCatalogFields(rs[p].items[k])
    /\ \E p \in Invocations, k \in 1..MaxItems :
        /\ Enrichment(p) /\ k <= Len(rs[p].items)
        /\ Has(rs[p].cached_skus, k)
        /\ rs[p].cached_skus[k].confidence >= ThresholdOf(rs[p].settings)
        /\ HasCatalogFields(rs[p].items[k])

\* the indices phase 1 put on the search list
Searched(p) == {rs[p].items_to_search[n] : n \in 1..Len(rs[p].items_to_search)}

KeyOf(p, k) == CacheKey(NameOf(rs[p].given[k]))

\* some candidate of item k has a fetched detail
HasDetailedCandidate(p, k) ==
    /\ Has(rs[p].candidates_per_item, k)
    /\ \E n \in 1..Len(rs[p].candidates_per_item[k]) :
          Has(rs[p].products_by_sku, rs[p].candidates_per_item[k][n])

\* C13: if the candidate search raises for one uncached item, resolve goes on:
\* that item has no candidates (no cache entry written for it, no
\* matchConfidence, no sku), and every other uncached item is still searched,
\* scored, cached and enriched.
C13_SearchFailureIsolated ==
    \A p \in Invocations :
        \A idx \in rs[p].failed :
            /\ rs[p].pc \in {"search", "fetch", "score", "enrich", "save", "done"}
            /\ ~Has(rs[p].candidates_per_item, idx)
            /\ ~Has(rs[p].cached_skus, idx)
            /\ rs[p].items[idx] = rs[p].given[idx]
            /\ (\A j \in Searched(p) : KeyOf(p, j) = KeyOf(p, idx) => j \in rs[p].failed)
                  => ~Has(rs[p].cache, KeyOf(p, idx))
            /\ rs[p].pc = "done" =>
                  \A j \in Searched(p) \ rs[p].failed :
                      /\ Has(rs[p].candidates_per_item, j)
                      /\ HasDetailedCandidate(p, j) =>
                            /\ Has(rs[p].cached_skus, j)
                            /\ Has(rs[p].cache, KeyOf(p, j))
                            /\ Has(rs[p].items[j], "matchConfidence")
                            /\ rs[p].cached_skus[j].confidence >= ThresholdOf(rs[p].settings)
                                  => HasCatalogFields(rs[p].items[j])

C13_Witness ==
    \E p \in Invocations :
        /\ rs[p].pc = "done"
        /\ rs[p].items_to_search = <<1, 2>>
        /\ rs[p].failed = {1}
        /\ KeyOf(p, 1) # KeyOf(p, 2)
        /\ HasCatalogFields(rs[p].items[2])
        /\ Has(disk, KeyOf(p, 2)) /\ ~Has(disk, KeyOf(p, 1))

\* C14: if the batch detail fetch fails, resolve goes on with an empty detail
\* map: no item receives sku or any other catalog field, no cache entry is
\* added or changed, and the items that had a cache entry still receive
\* matchConfidence.
C14_FetchFailureDegrades ==
    \A p \in Invocations :
        rs[p].fetch = "failed" =>
            /\ rs[p].pc \in {"score", "enrich", "save", "done"}
            /\ rs[p].products_by_sku = EmptyDict
            /\ rs[p].cache = rs[p].cache0
            /\ DOMAIN rs[p].cached_skus = rs[p].hits
            /\ \A k \in 1..Len(rs[p].items) : NoCatalogFields(rs[p].items[k])
            /\ Enrichment(p) =>
                  \A k \in rs[p].hits :
                      /\ Has(rs[p].items[k], "matchConfidence")
                      /\ rs[p].items[k].matchConfidence = rs[p].cached_skus[k].confidence
            /\ rs[p].pc = "done" => rs[p].saves = 1

C14_Witness ==
    \E p \in Invocations :
        /\ rs[p].fetch = "failed" /\ rs[p].pc = "done"
        /\ rs[p].hits # {}
        /\ \E j \in Searched(p) :
              Has(rs[p].candidates_per_item, j) /\ rs[p].candidates_per_item[j] # <<>>
        /\ \E k \in rs[p].hits : Has(rs[p].items[k], "matchConfidence")

\* the score _compute_confidence gives candidate n of item k
ScoreOf(p, k, n) ==
    ComputeConfidence(NameOf(rs[p].given[k]), TargetCents(rs[p].given[k]),
                      rs[p].products_by_sku[rs[p].candidates_per_item[k][n]],
                      rs[p].settings)

\* the positions of the candidates of item k that have a fetched detail
Detailed(p, k) ==
    {n \in 1..Len(rs[p].candidates_per_item[k]) :
        Has(rs[p].products_by_sku, rs[p].candidates_per_item[k][n])}

\* position n holds the highest of the scores, and no earlier position reaches it
IsWinner(scores, n) ==
    \A m \in DOMAIN scores :
        /\ scores[m] <= scores[n]
        /\ m < n => scores[m] < scores[n]

\* the last item on the search list that has the cache key of item k and a
\* candidate with detail
LastWriter(p, k) ==
    CHOOSE j \in Searched(p) :
        /\ KeyOf(p, j) = KeyOf(p, k) /\ HasDetailedCandidate(p, j)
        /\ \A x \in Searched(p) :
              (KeyOf(p, x) = KeyOf(p, k) /\ HasDetailedCandidate(p, x)) => x <= j

\* C15: for each uncached item, among its candidates that have fetched detail,
\* resolve selects the one with the highest score, on equal scores the one
\* earliest in search order, and writes {sku, confidence} of that winner into
\* the cache under the uppercased trimmed name whether or not the score
\* reaches the effective threshold (a later item of the same name overwrites
\* the entry with its own winner).
C15_BestCandidateCached ==
    \A p \in Invocations :
        rs[p].pc = "enrich" =>
            \A k \in Searched(p) :
                HasDetailedCandidate(p, k) =>
                    LET scores == [n \in Detailed(p, k) |-> ScoreOf(p, k, n)] IN
                    /\ Has(rs[p].cached_skus, k)
                    /\ \E n \in Detailed(p, k) :
                          /\ IsWinner(scores, n)
                          /\ rs[p].cached_skus[k] =
                                [sku |-> rs[p].candidates_per_item[k][n],
                                 confidence |-> scores[n]]
                    /\ Has(rs[p].cache, Upper(Strip(rs[p].given[k].name)))
                    /\ rs[p].cache[Upper(Strip(rs[p].given[k].name))] =
                          Entry(rs[p].cached_skus[LastWriter(p, k)].sku,
                                rs[p].cached_skus[LastWriter(p, k)].confidence)

\* an uncached item whose two best candidates tie, whose winner stays below
\* the threshold and is in the cache, next to a mixed-case name cached under
\* its uppercased form
C15_Witness ==
    \E p \in Invocations, k \in 1..MaxItems :
        /\ rs[p].pc = "enrich" /\ k \in Searched(p)
        /\ HasDetailedCandidate(p, k)
        /\ LastWriter(p, k) = k
        /\ LET scores == [n \in Detailed(p, k) |-> ScoreOf(p, k, n)] IN
           \E n, m \in Detailed(p, k) :
              n < m /\ IsWinner(scores, n) /\ scores[m] = scores[n]
        /\ rs[p].cached_skus[k].confidence < ThresholdOf(rs[p].settings)
        /\ rs[p].cache[KeyOf(p, k)] =
              Entry(rs[p].cached_skus[k].sku, rs[p].cached_skus[k].confidence)
        /\ \E j \in Searched(p) :
              /\ rs[p].given[j].name # Upper(rs[p].given[j].name)
              /\ Has(rs[p].cache, Upper(rs[p].given[j].name))

\* C16: an uncached item for which the search returns no results, or for which
\* no candidate obtains a positive score, is left unmatched: after resolve it
\* carries no sku and no matchConfidence.
C16_NoPositiveScoreUnmatched ==
    \A p \in Invocations :
        rs[p].pc = "done" =>
            \A k \in Searched(p) :
                (/\ Has(rs[p].candidates_per_item, k)
                 /\ \A n \in Detailed(p, k) : ScoreOf(p, k, n) <= 0)
                => /\ ~Has(rs[p].items[k], "sku")
                   /\ ~Has(rs[p].items[k], "matchConfidence")

\* r2 is a second run after r1: r1 started from an empty cache and saved before
\* r2 loaded, both with the same settings, and every gateway call of both runs
\* was answered
SecondRun ==
    /\ rs["r1"].pc = "done" /\ rs["r2"].pc = "done"
    /\ rs["r1"].loaded /\ rs["r2"].loaded
    /\ rs["r1"].cache0 = EmptyDict
    /\ flushed = <<"r1", "r2">> /\ rs["r2"].seen = 1
    /\ rs["r1"].settings = rs["r2"].settings
    /\ rs["r1"].failed = {} /\ rs["r2"].failed = {}
    /\ rs["r1"].fetch # "failed" /\ rs["r2"].fetch # "failed"

\* C17: idempotence of resolve: from an empty cache and with deterministic
\* gateway responses, a second run on the same items yields for every item the
\* same matchConfidence and the same enrichment fields as the first run, and
\* the cache after the second run equals the cache after the first run (also
\* for lists in which several items share a name but differ in price).
C17_Idempotent ==
    SecondRun =>
        /\ rs["r2"].given = rs["r1"].given
        /\ rs["r2"].items = rs["r1"].items
        /\ disk = rs["r1"].cache

\* item k had a cached confidence c in both runs, r1 ran with a threshold above
\* c, and r2 ran after r1 had saved, with a threshold of at most c
Requalified(k) ==
    /\ rs["r1"].pc = "done" /\ rs["r2"].pc = "done"
    /\ flushed = <<"r1", "r2">> /\ rs["r2"].seen = 1
    /\ k \in rs["r1"].hits
    /\ ThresholdOf(rs["r1"].settings) > rs["r1"].cached_skus[k].confidence
    /\ ThresholdOf(rs["r2"].settings) <= rs["r1"].cached_skus[k].confidence

\* C18 as stated: for an item whose name has a cached confidence c, a run with
\* effective threshold > c leaves the item with matchConfidence = c and without
\* the enrichment fields, and a later run with effective threshold <= c leaves
\* it with matchConfidence = c and with those fields, without a new search.
C18_ThresholdMonotoneAsStated ==
    \A k \in 1..MaxItems :
        Requalified(k) =>
            /\ rs["r1"].items[k] = SetField(rs["r1"].given[k], "matchConfidence",
                                            rs["r1"].cached_skus[k].confidence)
            /\ k \in rs["r2"].hits /\ k \notin Searched("r2") \cup rs["r2"].failed
            /\ Has(rs["r2"].items[k], "matchConfidence")
            /\ rs["r2"].items[k].matchConfidence = rs["r1"].cached_skus[k].confidence
            /\ HasCatalogFields(rs["r2"].items[k])

\* C18 amended: ... and a later run with effective threshold <= c leaves it
\* with matchConfidence = c, without a new search, and with those fields
\* provided that run's batch fetch returned the detail of the cached SKU; when
\* the fetch failed or returned no detail for it, the item carries
\* matchConfidence = c and none of those fields.
C18_ThresholdMonotone ==
    \A k \in 1..MaxItems :
        Requalified(k) =>
            /\ rs["r1"].items[k] = SetField(rs["r1"].given[k], "matchConfidence",
                                            rs["r1"].cached_skus[k].confidence)
            /\ k \in rs["r2"].hits /\ k \notin Searched("r2") \cup rs["r2"].failed
            /\ Has(rs["r2"].items[k], "matchConfidence")
            /\ rs["r2"].items[k].matchConfidence = rs["r1"].cached_skus[k].confidence
            /\ IF Has(rs["r2"].products_by_sku, rs["r2"].cached_skus[k].sku)
               THEN HasCatalogFields(rs["r2"].items[k])
               ELSE NoCatalogFields(rs["r2"].items[k])

C18_Witness ==
    \E k \in 1..MaxItems :
        /\ Requalified(k)
        /\ rs["r2"].fetch = "ok"
        /\ HasCatalogFields(rs["r2"].items[k])
        /\ NoCatalogFields(rs["r1"].items[k])

\* invocation p made the latest save of the cache file
LatestSave(p) == flushed # <<>> /\ flushed[Len(flushed)] = p

\* C19: a legacy cache entry stored as a bare SKU string is read as
\* {sku: that string, confidence: 50}, and resolve leaves the stored entry the
\* same bare string (no run searches a name that has the entry, so no run
\* produces a new best match for it).
C19_LegacyEntryKept ==
    \A p \in Invocations :
        rs[p].loaded =>
            \A key \in DOMAIN rs[p].cache0 :
                rs[p].cache0[key].t = "str" =>
                    /\ rs[p].cache[key] = rs[p].cache0[key]
                    /\ LatestSave(p) => (Has(disk, key) /\ disk[key] = rs[p].cache0[key])
                    /\ \A k \in 1..Len(rs[p].given) :
                          Upper(Strip(rs[p].given[k].name)) = key =>
                              /\ k \notin Searched(p)
                              /\ Has(rs[p].cached_skus, k)
                              /\ rs[p].cached_skus[k] =
                                    [sku |-> rs[p].cache0[key].s, confidence |-> 50]
                              /\ Enrichment(p) => rs[p].items[k].matchConfidence = 50

C19_Witness ==
    \E p \in Invocations, k \in 1..MaxItems :
        /\ rs[p].pc = "done" /\ LatestSave(p) /\ k \in rs[p].hits
        /\ rs[p].cache0[KeyOf(p, k)] = LegacyEntry(SkuPak)
        /\ disk[KeyOf(p, k)] = LegacyEntry(SkuPak)
        /\ rs[p].items[k].matchConfidence = 50
        /\ HasCatalogFields(rs[p].items[k])
        /\ \E j \in Searched(p) : Has(disk, KeyOf(p, j))

\* both invocations loaded the cache before either saved it
Overlap ==
    /\ rs["r1"].loaded /\ rs["r2"].loaded
    /\ rs["r1"].seen = 0 /\ rs["r2"].seen = 0

\* the keys invocation p added to the cache it loaded
Added(p) == DOMAIN rs[p].cache \ DOMAIN rs[p].cache0

\* C20: two resolve invocations that overlap on the match cache can lose an
\* update: the cache persisted after both finish is exactly what the later
\* flush wrote, so an entry added only by the invocation that flushed first is
\* absent from the final cache.
C20_LastFlushWins ==
    (Overlap /\ Len(flushed) = 2 /\ rs["r1"].pc = "done" /\ rs["r2"].pc = "done") =>
        /\ disk = rs[flushed[2]].cache
        /\ \A key \in Added(flushed[1]) \ Added(flushed[2]) : ~Has(disk, key)

C20_Witness ==
    /\ Overlap /\ Len(flushed) = 2
    /\ rs["r1"].pc = "done" /\ rs["r2"].pc = "done"
    /\ \E key \in Added(flushed[1]) \ Added(flushed[2]) : ~Has(disk, key)

\* the SKUs phase 3 unions: the candidates the searches returned and the SKUs
\* of the phase-1 cache hits
CandidateSkus(p) ==
    UNION { {rs[p].candidates_per_item[idx][n] : n \in 1..Len(rs[p].candidates_per_item[idx])} :
            idx \in DOMAIN rs[p].candidates_per_item }

HitSkus(p) == {rs[p].cached_skus[k].sku : k \in rs[p].hits}

\* every item on the search list has been searched: its search returned or raised
SearchesOver(p) ==
    /\ rs[p].k = Len(rs[p].items_to_search) + 1
    /\ DOMAIN rs[p].candidates_per_item \cup rs[p].failed = Searched(p)

\* nothing of phase 4 has happened yet
Unscored(p) == rs[p].cache = rs[p].cache0 /\ DOMAIN rs[p].cached_skus = rs[p].hits

PhaseOrder(p) ==
    /\ rs[p].pc = "search" => (rs[p].fetch = "none" /\ Unscored(p))
    /\ rs[p].pc = "fetch" =>
          /\ SearchesOver(p) /\ Unscored(p) /\ rs[p].fetch = "none"
          /\ rs[p].all_skus = CandidateSkus(p) \cup HitSkus(p)
          /\ rs[p].all_skus # {}
    /\ rs[p].fetch # "none" =>
          /\ SearchesOver(p)
          /\ rs[p].all_skus = CandidateSkus(p) \cup HitSkus(p)
          /\ rs[p].all_skus # {}
    /\ (Scored(p) /\ rs[p].loaded /\ rs[p].fetch = "none") =>
          (SearchesOver(p) /\ CandidateSkus(p) \cup HitSkus(p) = {})
    /\ ~Unscored(p) => Scored(p)

\* the batch fetch answers only a call that waits for it, once, and scoring
\* starts only from the completed phase 3
FetchOnce(p) ==
    /\ rs[p].fetch # rs'[p].fetch => (rs[p].fetch = "none" /\ rs[p].pc = "fetch")
    /\ (rs[p].pc # "score" /\ rs'[p].pc = "score") =>
          (rs'[p].cache = rs'[p].cache0 /\ rs'[p].k = Len(rs'[p].items_to_search) + 1)
    /\ rs[p].pc = "fetch" => rs'[p].pc \in {"fetch", "score"}

\* C21: within one resolve call every candidate search completes (or fails)
\* before the batch fetch is issued, the batch fetch completes (or degrades)
\* before any candidate is scored, at most one batch fetch is issued, its SKU
\* set is the union of the candidate SKUs the searches found and the SKUs of
\* the cache hits, and it is not issued when that union is empty.
C21_PhasesOrdered ==
    /\ [](\A p \in Invocations : PhaseOrder(p))
    /\ [][\A p \in Invocations : FetchOnce(p)]_vars

C21_Witness ==
    \E p \in Invocations :
        /\ rs[p].pc = "done" /\ rs[p].fetch = "ok"
        /\ rs[p].hits # {}
        /\ CandidateSkus(p) # {} /\ ~(HitSkus(p) \subseteq CandidateSkus(p))
        /\ rs[p].cache # rs[p].cache0
        /\ \E q \in Invocations : rs[q].pc = "done" /\ rs[q].failed # {} /\ rs[q].fetch # "none"

\* the number of saves of invocation p among the writes of the cache file
SavesOf(p) == Cardinality({n \in 1..Len(flushed) : flushed[n] = p})

PersistedOnce(p) ==
    /\ rs[p].saves = SavesOf(p)
    /\ rs[p].saves = (IF rs[p].loaded /\ rs[p].pc = "done" THEN 1 ELSE 0)
    /\ (flushed = <<>>) => disk \in InitialCaches

\* a step that writes the cache file is the save of a call whose phase 5 is
\* over and that has not saved before
WritesOnlyAtSave ==
    (disk' # disk \/ flushed' # flushed) =>
        \E p \in Invocations :
            /\ rs[p].pc = "save" /\ rs'[p].pc = "done"
            /\ rs[p].saves = 0 /\ rs'[p].saves = 1
            /\ rs[p].items = Phase5(rs[p])
            /\ \A k \in DOMAIN rs[p].cached_skus : Has(rs[p].items[k], "matchConfidence")
            /\ rs'[p].items = rs[p].items
            /\ disk' = rs[p].cache
            /\ flushed' = Append(flushed, p)

\* C22: a resolve call that gets past the matching-enabled check with a
\* non-empty item list persists the match cache exactly once, after the
\* enrichment of the last item, and writes nothing to the cache file before
\* that, also when searches or the batch fetch failed.
C22_PersistedOnce ==
    /\ [](\A p \in Invocations : PersistedOnce(p))
    /\ [][WritesOnlyAtSave]_vars

C22_Witness ==
    \E p \in Invocations :
        /\ rs[p].pc = "done" /\ rs[p].saves = 1
        /\ rs[p].fetch = "failed" /\ rs[p].failed # {}
        /\ \E q \in Invocations :
              /\ rs[q].pc = "done" /\ rs[q].saves = 1 /\ rs[q].fetch = "ok"
              /\ rs[q].cache # rs[q].cache0

----------------------------------------------------------------------------
(* Claims about the parser's states and rules                              *)

\* the step is one completed iteration of the outer loop
Iteration == InLoop /\ i' # i

\* the line under the cursor, joined
CurrentJoined == Joined(text_objects[i + 1])

\* v is the value of the last token of ts that float() accepts
IsLastNumber(ts, v) ==
    \E k \in 1..Len(ts) :
        /\ ParseFloat(CommaToDot(Strip(ts[k].s))) = Ok(v)
        /\ \A n \in (k + 1)..Len(ts) : ParseFloat(CommaToDot(Strip(ts[n].s))).exc # "none"

HasNumber(ts) == \E k \in 1..Len(ts) : ParseFloat(CommaToDot(Strip(ts[k].s))).exc = "none"

ItemsStateStep ==
    IF Iteration
    THEN LET ts == text_objects[i + 1]
             header == IsHeaderLine(CurrentJoined)
             leaves == in_items /\ ~header /\ StartsWith(CurrentJoined, Totaal)
         IN /\ Len(items') # Len(items) => (in_items /\ in_items' /\ ~header)
            /\ ~in_items => items' = items
            /\ header => (in_items' /\ items' = items /\ total' = total)
            /\ ~header => (in_items' = (in_items /\ ~leaves))
            /\ leaves => /\ items' = items
                         /\ IF HasNumber(ts) THEN IsLastNumber(ts, total') ELSE total' = total
            /\ ~leaves => total' = total
    ELSE UNCHANGED <<in_items, items, total>>

\* C23: line items are created only in the items state; the state is entered
\* by a line holding both header markers (never an item, in any state, also
\* after a total line), left by a line starting with the total marker, and the
\* receipt total is set only by a total line met in the items state, to the
\* last numeric token of that line; lines before the first header and between
\* a total line and the next header create no items.
C23_ItemsState == [][ItemsStateStep]_vars

C23_Witness ==
    /\ pc = "done" /\ raw_json.kind = "receipt"
    /\ raw_json.lines = <<"header", "sep", "melk", "total", "melk", "header", "melk", "qty", "total">>
    /\ Len(items) = 2 /\ items[2].quantity = 2
    /\ total = Norm(1234, 2) /\ ~in_items
    /\ result.total = total

\* the line under the cursor is met in the items state and is neither a
\* header, a total, a separator or empty-first-token line nor a quantity line
PlainItemLine ==
    LET first == FirstOf(text_objects[i + 1]) IN
    /\ in_items
    /\ ~IsHeaderLine(CurrentJoined)
    /\ ~StartsWith(CurrentJoined, Totaal)
    /\ ~(IsRule(first) \/ first = <<>>)
    /\ ~QtyMatch(first).ok

ItemLineStep ==
    /\ (Iteration /\ PlainItemLine) =>
          /\ Len(items') = Len(items) + 1
          /\ SubSeq(items', 1, Len(items)) = items
          /\ items'[Len(items')].name = FirstOf(text_objects[i + 1])
          /\ items'[Len(items')].quantity = 1
          /\ i' = i + 1
          /\ UNCHANGED <<payment_method, vat_lines, item_count, in_items>>
    /\ (payment_method' # payment_method \/ vat_lines' # vat_lines \/ item_count' # item_count)
          => (Iteration /\ ~in_items)

\* C24: in the items state every line that is not a header, total,
\* separator/empty-first-token or quantity line creates exactly one item, also
\* when it starts with the payment marker, the VAT-header marker or the
\* item-count pattern; such a line sets neither paymentMethod nor vatSummary
\* nor itemCount, which only lines met outside the items state set.
C24_ItemLineWins == [][ItemLineStep]_vars

C24_Witness ==
    /\ pc = "done" /\ raw_json.kind = "receipt"
    /\ raw_json.lines = <<"melk", "total", "header", "pay", "vathdr", "count", "total", "pay", "melk", "count">>
    /\ Len(items) = 3
    /\ StartsWith(items[1].name, Betaald)
    /\ StartsWith(items[2].name, BTWPct)
    /\ CountMatch(items[3].name).ok
    /\ result.paymentMethod = J_Str(<<"M","E","L","K">>)
    /\ result.vatSummary = <<>>
    /\ result.itemCount = J_Int(3)

\* the line under the cursor is met outside the items state and starts with
\* the payment marker
PaymentMarkerLine ==
    /\ ~in_items
    /\ ~IsHeaderLine(CurrentJoined)
    /\ StartsWith(CurrentJoined, Betaald)

PaymentStep ==
    (Iteration /\ PaymentMarkerLine) =>
        /\ i' = i + 2
        /\ UNCHANGED <<in_items, items, total, vat_lines, item_count>>
        /\ IF i + 1 < Len(text_objects)
           THEN payment_method' =
                   (IF text_objects[i + 2] # <<>>
                    THEN J_Str(Strip(text_objects[i + 2][1].s)) ELSE None)
           ELSE payment_method' = payment_method

\* C25: outside the items state a line at position i starting with the
\* payment marker sets paymentMethod to the (stripped) first token of line i+1
\* when that line exists and moves the cursor past line i+1, so that line
\* cannot enter the items state, start a VAT scan or set itemCount; when line
\* i is the last line, paymentMethod is left unchanged.
C25_PaymentConsumesNext == [][PaymentStep]_vars

C25_Witness ==
    /\ pc = "done" /\ raw_json.kind = "receipt"
    /\ raw_json.lines = <<"pay", "header", "melk">>
    /\ result.paymentMethod = J_Str(OMSCHRIJVING)
    /\ ~in_items /\ result.items = <<>> /\ last = "unmatched"

\* line k of the document is a VAT-header line
VatHeaderAt(k) ==
    LET joined == Joined(text_objects[k]) IN
    StartsWith(joined, BTWPct) \/ Contains(joined, BedragExcl)

\* line k ends a VAT sub-scan: a separator or a blank line
VatEndAt(k) ==
    LET joined == Joined(text_objects[k]) IN IsRule(joined) \/ joined = <<>>

\* line k lies after a VAT-header line and before the first separator or blank
\* line that follows that header
InVatBlock(k) ==
    \E h \in 1..(k - 1) : VatHeaderAt(h) /\ \A m \in (h + 1)..k : ~VatEndAt(m)

\* line k is a per-rate row: in a VAT block, with a percent sign, at least
\* three non-empty tokens and a first token without "Totaal"
VatRateRow(k) ==
    LET parts == Parts(text_objects[k]) IN
    /\ InVatBlock(k)
    /\ Contains(Joined(text_objects[k]), <<"%">>)
    /\ Len(parts) >= 3
    /\ ~Contains(parts[1], Totaal)

VatEntryOf(k) ==
    LET parts == Parts(text_objects[k]) IN
    [rate |-> parts[1], amountExcl |-> parts[2], vatAmount |-> parts[3]]

\* the entries es come, in document order, from per-rate rows among the lines
\* k..Len(text_objects)
RECURSIVE FromRateRows(_, _)
FromRateRows(es, k) ==
    IF es = <<>> THEN TRUE
    ELSE IF k > Len(text_objects) THEN FALSE
    ELSE IF VatRateRow(k) /\ VatEntryOf(k) = Head(es)
         THEN FromRateRows(Tail(es), k + 1)
         ELSE FromRateRows(es, k + 1)

VatBlockStep ==
    (Iteration /\ vat_lines' # vat_lines) =>
        /\ VatHeaderAt(i + 1)
        /\ \A m \in (i + 2)..i' : ~VatEndAt(m)
        /\ i' < Len(text_objects) => (VatEndAt(i' + 1) /\ pc' = "walk")

\* C26: every vatSummary entry comes from a line that lies after a VAT-header
\* line and before the first following separator or blank line, contains a
\* percent sign, has at least three non-empty tokens and a first token not
\* containing "Totaal"; rate, amountExcl and vatAmount are the first three
\* non-empty tokens of that line, entries are in document order, and the line
\* that ends the VAT sub-scan is still examined by the outer loop.
C26_VatEntries ==
    /\ []((pc = "done" /\ "vatSummary" \in DOMAIN result) => FromRateRows(result.vatSummary, 1))
    /\ [][VatBlockStep]_vars

----------------------------------------------------------------------------
(* Claims about the sub-scores of _compute_confidence                      *)

\* d: the distance of the receipt price to the list price, or to the promo
\* price when one is present and nearer
PriceDistance(in) ==
    LET r == in.receipt_price_cents
        list == Abs(in.product.price.price - r)
    IN IF in.product.price.promoPrice # None
       THEN Min(list, Abs(in.product.price.promoPrice.n - r))
       ELSE list

\* the share of the cap, in thousandths, that the tier table gives a distance
\* d from a receipt price r
TierShare(d, r) ==
    IF r <= 0 THEN 0
    ELSE IF d = 0 THEN 1000
    ELSE IF d * 100 <= 5 * r THEN 800
    ELSE IF d * 100 <= 10 * r THEN 625
    ELSE IF d * 100 <= 20 * r THEN 375
    ELSE IF d * 100 <= 30 * r THEN 250
    ELSE IF d * 100 <= 50 * r THEN 125
    ELSE 0

PriceSectionStep ==
    (sc.pc = "price" /\ sc.in.settings.usePriceMatching) =>
        LET d == PriceDistance(sc.in)
            r == sc.in.receipt_price_cents
        IN /\ sc'.score - sc.score = sc.in.settings.priceMatchWeight * TierShare(d, r)
           /\ \A e \in 0..d : TierShare(e, r) >= TierShare(d, r)

\* C27: with price matching enabled the price sub-score is determined by
\* d = min(|list price - receipt price|, |promo price - receipt price| when a
\* promo price is present) as a percentage of the receipt price: the full cap
\* for d = 0, then 80%, 62.5%, 37.5%, 25% and 12.5% of the cap for d <= 5%,
\* <= 10%, <= 20%, <= 30% and <= 50%, and 0 for d > 50% or a receipt price
\* that is not positive; it is non-increasing in d.
C27_PriceTiers == [][PriceSectionStep]_vars

C27_Witness ==
    /\ sc # None /\ sc.pc = "size"
    /\ sc.in.settings = PriceOnly(100)
    /\ sc.in.receipt_price_cents = 500
    /\ sc.in.product.price = [price |-> 751, promoPrice |-> J_Int(740)]
    /\ sc.score = 12500

\* the sizes the two sides of a comparison show
ReceiptSize == ExtractSize(sc.in.receipt_name)
CandidateSize == ExtractSize(sc.in.product.title \o <<" ">> \o sc.in.product.subtitle)

SizeAbsentStep ==
    (sc.pc = "size" /\ sc.in.settings.useWeightMatching) =>
        /\ (ReceiptSize = None /\ CandidateSize = None) =>
               2 * (sc'.score - sc.score) = 1000 * sc.in.settings.weightMatchWeight
        /\ ((ReceiptSize = None) # (CandidateSize = None)) => sc'.score = sc.score

\* C28: with size matching enabled the size sub-score is half the size cap
\* when neither the receipt name nor the candidate title+subtitle contains a
\* detectable size, and 0 when exactly one of the two contains one.
C28_SizeAbsent == [][SizeAbsentStep]_vars

C28_Witness ==
    /\ sc # None /\ sc.pc = "done"
    /\ sc.in.settings.useWeightMatching /\ sc.in.settings.weightMatchWeight = 40
    /\ ~sc.in.settings.usePriceMatching /\ ~sc.in.settings.useNameMatching
    /\ ReceiptSize = None /\ CandidateSize = None
    /\ sc.score = 20000 /\ sc.ret = J_Int(20)

\* both sides show a size; lo / hi is the ratio r of the two magnitudes
BothSized == ReceiptSize # None /\ CandidateSize # None

SizeLo == Min(ReceiptSize.n * CandidateSize.d, CandidateSize.n * ReceiptSize.d)
SizeHi == Max(ReceiptSize.n * CandidateSize.d, CandidateSize.n * ReceiptSize.d)

\* the tier of the ratio
RatioTier ==
    IF SizeLo * 100 >= 99 * SizeHi THEN "full"
    ELSE IF SizeLo * 10 >= 9 * SizeHi THEN "upper"
    ELSE IF SizeLo * 10 >= 7 * SizeHi THEN "lower"
    ELSE "none"

SizeSectionOf == sc.pc = "size" /\ sc.in.settings.useWeightMatching /\ BothSized /\ SizeHi > 0

ReturnOfSizeOnly ==
    /\ sc.pc = "return" /\ BothSized /\ SizeHi > 0
    /\ sc.in.settings.useWeightMatching
    /\ ~sc.in.settings.usePriceMatching /\ ~sc.in.settings.useNameMatching

\* C29 as stated: the middle tiers are exactly two-thirds and one-third of the
\* cap, and the size-only score is round(2*cap/3) and round(cap/3)
C29_SizeRatioAsStated ==
    [][LET cap == sc.in.settings.weightMatchWeight IN
       /\ SizeSectionOf =>
            CASE RatioTier = "full"  -> sc'.score - sc.score = 1000 * cap
              [] RatioTier = "upper" -> 3 * (sc'.score - sc.score) = 2000 * cap
              [] RatioTier = "lower" -> 3 * (sc'.score - sc.score) = 1000 * cap
              [] RatioTier = "none"  -> sc'.score = sc.score
       /\ ReturnOfSizeOnly =>
            CASE RatioTier = "full"  -> sc'.ret = J_Int(cap)
              [] RatioTier = "upper" -> sc'.ret = J_Int(RoundHalfEven(2 * cap, 3))
              [] RatioTier = "lower" -> sc'.ret = J_Int(RoundHalfEven(cap, 3))
              [] RatioTier = "none"  -> sc'.ret = J_Int(0)]_vars

\* C29: when both sides have a size and r = min/max of the two magnitudes, the
\* size sub-score is the full size cap for r >= 0.99, 0.67 times the cap for
\* 0.9 <= r < 0.99, 0.33 times the cap for 0.7 <= r < 0.9 and 0 for r < 0.7,
\* for every integer cap in 0..100; with only size matching enabled the
\* returned score is the cap, round(0.67 * cap), round(0.33 * cap) or 0.
C29_SizeRatio ==
    [][LET cap == sc.in.settings.weightMatchWeight IN
       /\ SizeSectionOf =>
            CASE RatioTier = "full"  -> sc'.score - sc.score = 1000 * cap
              [] RatioTier = "upper" -> 100 * (sc'.score - sc.score) = 67 * 1000 * cap
              [] RatioTier = "lower" -> 100 * (sc'.score - sc.score) = 33 * 1000 * cap
              [] RatioTier = "none"  -> sc'.score = sc.score
       /\ ReturnOfSizeOnly =>
            CASE RatioTier = "full"  -> sc'.ret = J_Int(cap)
              [] RatioTier = "upper" -> sc'.ret = J_Int(RoundHalfEven(67 * cap, 100))
              [] RatioTier = "lower" -> sc'.ret = J_Int(RoundHalfEven(33 * cap, 100))
              [] RatioTier = "none"  -> sc'.ret = J_Int(0)]_vars

C29_Witness ==
    /\ sc # None /\ sc.pc = "done"
    /\ sc.in.settings = SizeOnly(50)
    /\ BothSized /\ RatioTier = "upper" /\ SizeLo * 10 = 9 * SizeHi
    /\ sc.score = 33500 /\ sc.ret = J_Int(34)

\* the token sets of the two names
ReceiptTokens == NameWords(sc.in.receipt_name)
CandidateTokens == NameWords(sc.in.product.title \o <<" ">> \o sc.in.product.subtitle)

NameSectionStep ==
    (sc.pc = "name" /\ sc.in.settings.useNameMatching) =>
        LET cap == sc.in.settings.nameMatchWeight
            shared == Cardinality(ReceiptTokens \cap CandidateTokens)
        IN /\ (ReceiptTokens # {} /\ CandidateTokens # {}) =>
                 sc'.score - sc.score =
                    1000 * RoundHalfEven(shared * cap, Cardinality(ReceiptTokens))
           /\ (shared = 0 \/ ReceiptTokens = {} \/ CandidateTokens = {}) =>
                 sc'.score = sc.score

\* C30: with name matching enabled the name sub-score is
\* round(|receipt tokens /\ candidate tokens| / |receipt tokens| * nameMatchWeight),
\* relative to the receipt's token set only; it is 0 whenever the two token
\* sets share no token, whatever the cap, and when either token set is empty.
C30_NameOverlap == [][NameSectionStep]_vars

C30_Witness ==
    /\ sc # None /\ sc.pc = "done"
    /\ sc.in.settings = NameOnly(5)
    /\ Cardinality(ReceiptTokens) = 2 /\ Cardinality(CandidateTokens) = 3
    /\ Cardinality(ReceiptTokens \cap CandidateTokens) = 1
    /\ sc.score = 2000 /\ sc.ret = J_Int(2)

----------------------------------------------------------------------------
(* Claims about the toggles of _compute_confidence                         *)

Toggles == {"usePriceMatching", "useWeightMatching", "useNameMatching"}

\* the score _compute_confidence returns for the input in
Confidence(in) == Clamp(PricePoints(in) + SizePoints(in) + NamePoints(in))

\* the input in with toggle t switched off
SwitchedOff(in, t) == [in EXCEPT !.settings[t] = FALSE]

\* the section of a position of the scorer and its toggle
ToggleAt(pos) ==
    CASE pos = "price" -> "usePriceMatching"
      [] pos = "size" -> "useWeightMatching"
      [] pos = "name" -> "useNameMatching"

SectionStep ==
    sc.pc \in {"price", "size", "name"} =>
        /\ sc'.score >= sc.score
        /\ ~sc.in.settings[ToggleAt(sc.pc)] => sc'.score = sc.score

TogglesAtReturn ==
    sc.pc = "done" =>
        /\ (\A t \in Toggles : ~sc.in.settings[t]) => (sc.score = 0 /\ sc.ret = J_Int(0))
        /\ \A t \in Toggles : Confidence(SwitchedOff(sc.in, t)) <= sc.ret.n

\* C31: a sub-score whose toggle is off contributes 0 to the score: with all
\* three toggles off the score is 0 for every input, and switching one toggle
\* off never raises the score of any input.
C31_TogglesOff ==
    /\ []TogglesAtReturn
    /\ [][SectionStep]_vars

C31_Witness ==
    /\ sc # None /\ sc.pc = "done"
    /\ \A t \in Toggles : ~sc.in.settings[t]
    /\ sc.in.settings.priceMatchWeight = 100 /\ sc.in.settings.nameMatchWeight = 100
    /\ sc.ret = J_Int(0)
    /\ Confidence([sc.in EXCEPT !.settings.usePriceMatching = TRUE,
                                !.settings.useNameMatching = TRUE]) = 100

----------------------------------------------------------------------------
(* Claims about the prefix tiers of _calculate_ean_similarity              *)

\* the length of the longest common prefix of x and y
CommonPrefix(x, y) ==
    CHOOSE n \in 0..Min(Len(x), Len(y)) :
        /\ SubSeq(x, 1, n) = SubSeq(y, 1, n)
        /\ n < Min(Len(x), Len(y)) => x[n + 1] # y[n + 1]

\* the table of the statement
StatedTier(n, st) ==
    CASE n >= 12 -> 95
      [] n = 11 -> 92
      [] n = 10 -> st.eanScore10Plus
      [] n \in 8..9 -> st.eanScore8Plus
      [] n \in 6..7 -> st.eanScore6Plus
      [] n \in 4..5 -> st.eanScore4Plus
      [] n <= 3 -> 10

\* a finished call whose result comes from the prefix count
PrefixCase ==
    /\ EanDone
    /\ ean.barcode1 # <<>> /\ ean.barcode2 # <<>>
    /\ DigitsOnly(ean.barcode1) # DigitsOnly(ean.barcode2)
    /\ ~ZeroPadded(DigitsOnly(ean.barcode1), DigitsOnly(ean.barcode2))
    /\ ~ZeroPadded(DigitsOnly(ean.barcode2), DigitsOnly(ean.barcode1))

C36_Symmetric ==
    EanDone => ean.ret = J_Int(EanSimilarity(ean.barcode2, ean.barcode1, ean.settings))

C36_Witness ==
    /\ EanDone
    /\ ean.barcode1 = Ean13 /\ ean.barcode2 = <<"0"," ">> \o Ean13
    /\ ean.ret = J_Int(95)
    /\ EanSimilarity(ean.barcode2, ean.barcode1, ean.settings) = 95

----------------------------------------------------------------------------
(* Claims about cache hits and skipped items of _resolve_receipt_products  *)

\* item k of the call is a deposit item or has an empty name
SkippedItem(p, k) ==
    \/ NameOf(rs[p].given[k]) = <<>>
    \/ Has(rs[p].given[k], "isDeposit") /\ rs[p].given[k].isDeposit

\* item k has a name with a cache entry in the cache the call loaded
HitItem(p, k) == ~SkippedItem(p, k) /\ Has(rs[p].cache0, KeyOf(p, k))

\* the items a search has been issued for, or is about to be
SearchIssued(p) == Searched(p) \cup DOMAIN rs[p].candidates_per_item \cup rs[p].failed

CacheHitsKept(p) ==
    \A k \in 1..Len(rs[p].given) :
        /\ HitItem(p, k) =>
              /\ k \notin SearchIssued(p)
              /\ Has(rs[p].cache, KeyOf(p, k))
              /\ rs[p].cache[KeyOf(p, k)] = rs[p].cache0[KeyOf(p, k)]
        /\ SkippedItem(p, k) =>
              /\ k \notin SearchIssued(p)
              /\ k \notin DOMAIN rs[p].cached_skus
              /\ rs[p].items[k] = rs[p].given[k]

\* the entries the call created are for names that had none at load time, and
\* are names of items it searched
CreatedOnlyForMisses(p) ==
    \A key \in DOMAIN rs[p].cache :
        \/ Has(rs[p].cache0, key) /\ rs[p].cache[key] = rs[p].cache0[key]
        \/ /\ ~Has(rs[p].cache0, key)
           /\ \E k \in Searched(p) : KeyOf(p, k) = key

\* the flush of p writes every loaded entry as it was loaded
FlushKeepsLoaded(p) ==
    (rs[p].pc = "save" /\ rs'[p].pc = "done") =>
        \A key \in DOMAIN rs[p].cache0 : Has(disk', key) /\ disk'[key] = rs[p].cache0[key]

\* C33: for an item whose uppercased trimmed name has a cache entry when
\* resolve loads the cache, resolve issues no candidate search and leaves that
\* entry unchanged in the flushed cache; entries are only created for names
\* that had no entry at load time; deposit items and items with an empty name
\* cause no cache lookup, no search and no change to the item.
C33_HitsNotSearched ==
    /\ [](\A p \in Invocations : rs[p].loaded => (CacheHitsKept(p) /\ CreatedOnlyForMisses(p)))
    /\ [][\A p \in Invocations : FlushKeepsLoaded(p)]_vars

C33_Witness ==
    \E p \in Invocations :
        /\ rs[p].pc = "done" /\ rs[p].loaded /\ rs[p].saves = 1
        /\ Len(rs[p].given) = 2
        /\ HitItem(p, 1) /\ rs[p].items[1] # rs[p].given[1]
        /\ rs[p].given[2] = DepositItem /\ rs[p].items[2] = DepositItem
        /\ disk = rs[p].cache0
        /\ \E q \in Invocations :
              /\ rs[q].loaded /\ rs[q].pc = "done"
              /\ Added(q) # {}

----------------------------------------------------------------------------
(* Claims about items of one call that share a name                        *)

\* item k is an uncached item whose cache key another uncached item has too
SharesName(p, k) ==
    /\ k \in Searched(p)
    /\ \E j \in Searched(p) : j # k /\ KeyOf(p, j) = KeyOf(p, k)

\* the winner of item k: the first candidate of the highest score, scored with
\* the price of item k
WinnerOf(p, k) ==
    LET scores == [n \in Detailed(p, k) |-> ScoreOf(p, k, n)]
        n == CHOOSE n \in Detailed(p, k) : IsWinner(scores, n)
    IN [sku |-> rs[p].candidates_per_item[k][n], confidence |-> scores[n]]

\* item k carries the match w after phase 5
EnrichedWith(p, k, w) ==
    /\ Has(rs[p].items[k], "matchConfidence")
    /\ rs[p].items[k].matchConfidence = w.confidence
    /\ IF w.confidence >= ThresholdOf(rs[p].settings)
       THEN rs[p].items[k] =
                Enriched(SetField(rs[p].given[k], "matchConfidence", w.confidence),
                         w.sku, Catalog[w.sku])
       ELSE NoCatalogFields(rs[p].items[k])

SharedNameItems(p) ==
    \A k \in 1..Len(rs[p].given) :
        SharesName(p, k) =>
            /\ k \in DOMAIN rs[p].candidates_per_item \cup rs[p].failed
            /\ HasDetailedCandidate(p, k) =>
                  LET own == WinnerOf(p, k)
                      final == WinnerOf(p, LastWriter(p, k))
                  IN /\ rs[p].cached_skus[k] = own
                     /\ EnrichedWith(p, k, own)
                     /\ rs[p].cache[KeyOf(p, k)] = Entry(final.sku, final.confidence)
                     /\ disk'[KeyOf(p, k)] = Entry(final.sku, final.confidence)

\* the return of p: the save and `return items`
Returns(p) == rs[p].pc = "save" /\ rs'[p].pc = "done"

\* C37: when several uncached items in one resolve call share the same
\* uppercased trimmed name, each of them is searched and scored separately
\* with its own price and is enriched in that call with its own winner, while
\* the cache entry for the name after the call is the winner of the last such
\* item in list order that had a winner.
C37_SharedName ==
    [][\A p \in Invocations :
          Returns(p) => (SharedNameItems(p) /\ rs'[p].items = rs[p].items)]_vars

C37_Witness ==
    \E p \in Invocations :
        /\ rs[p].pc = "done" /\ rs[p].saves = 1
        /\ Len(rs[p].given) = 2
        /\ SharesName(p, 1) /\ SharesName(p, 2)
        /\ Has(rs[p].items[1], "sku") /\ Has(rs[p].items[2], "sku")
        /\ rs[p].items[1].sku = SkuPak /\ rs[p].items[1].matchConfidence = 70
        /\ rs[p].items[2].sku = SkuMelk /\ rs[p].items[2].matchConfidence = 85
        /\ rs[p].cache = (CacheKey(MELK) :> Entry(SkuMelk, 85))

----------------------------------------------------------------------------
(* Claims about clear_receipt_sku_cache during a resolve call              *)

\* the cache file was cleared after p loaded it and before p flushed
ClearedInFlight(p) ==
    /\ rs[p].loaded
    /\ \E n \in ClearedAt : n > rs[p].seen /\ \E m \in (n + 1)..Len(flushed) : flushed[m] = p

\* the flush of p after a clear writes what p loaded and what p added
FlushRecreates(p) ==
    (Returns(p) /\ \E n \in ClearedAt : n > rs[p].seen) =>
        /\ DOMAIN disk' = DOMAIN rs[p].cache0 \cup Added(p)
        /\ \A key \in DOMAIN rs[p].cache0 : disk'[key] = rs[p].cache0[key]
        /\ \A key \in Added(p) : disk'[key] = rs[p].cache[key]

\* C38 as stated: if the match cache is cleared while a resolve call is
\* between its cache load and its flush, the flush recreates the cache with
\* every entry the call loaded plus the entries it added, so the cache is not
\* empty after both operations have finished.
C38_ClearUndoneAsStated ==
    \A p \in Invocations :
        (ClearedInFlight(p) /\ rs[p].pc = "done") =>
            /\ disk = rs[p].cache
            /\ disk # EmptyDict

\* C38 amended: the flush recreates the cache with every entry the call loaded
\* plus the entries it added; the cache after both operations is empty only if
\* the call had loaded no entry and added none.
C38_ClearUndone ==
    /\ [](\A p \in Invocations :
            (ClearedInFlight(p) /\ rs[p].pc = "done") =>
                /\ disk = rs[p].cache
                /\ disk = EmptyDict <=> (rs[p].cache0 = EmptyDict /\ Added(p) = {}))
    /\ [][\A p \in Invocations : FlushRecreates(p)]_vars

C38_Witness ==
    /\ ClearedInFlight(First) /\ rs[First].pc = "done"
    /\ rs[First].cache0 = (CacheKey(MELK) :> LegacyEntry(SkuPak))
    /\ Added(First) # {}
    /\ disk = rs[First].cache

----------------------------------------------------------------------------
(* _clean_receipt_name and _search_product_skus                            *)

AsciiLetters == Letters \cup {UpperAlpha[k] : k \in 1..26}

\* \w at index k of s
IsWordAt(s, k) == k >= 1 /\ k <= Len(s) /\ s[k] \in WordChars

\* \b between index k - 1 and index k of s
BoundaryAt(s, k) == IsWordAt(s, k - 1) # IsWordAt(s, k)

\* the literal w (in upper case) at index k of s, ignoring case
LiteralAt(s, k, w) ==
    k + Len(w) - 1 <= Len(s) /\ Upper(SubSeq(s, k, k + Len(w) - 1)) = w

\* an entry of _RECEIPT_ABBREVS: \b, the literal, then the tail of the pattern:
\* nothing, \b, \.?(?=\s|$) or \.?\b
Abbrev(lit, tail, repl) == [lit |-> lit, tail |-> tail, repl |-> repl]

ReceiptAbbrevs ==
    << Abbrev(<<"J","U","M",".">>, "none", <<"j","u","m","b","o"," ">>),
       Abbrev(<<"G","E","S","N">>, "dot_la", <<"g","e","s","n","e","d","e","n">>),
       Abbrev(<<"G","E","M">>, "dot_la", <<"g","e","m","e","n","g","d">>),
       Abbrev(<<"R","A","S","P">>, "b", <<"g","e","r","a","s","p","t","e">>),
       Abbrev(<<"C","H","A","M","P">>, "b", <<"c","h","a","m","p","i","g","n","o","n","s">>),
       Abbrev(<<"A",".","A","N","D","E","R","S">>, "b",
              <<"a","a","r","d","a","p","p","e","l"," ","a","n","d","e","r","s">>),
       Abbrev(<<"C","C">>, "b", <<"c","o","n"," ","c","a","r","n","e">>),
       Abbrev(<<"S","P","A","G","H">>, "dot_b", <<"s","p","a","g","h","e","t","t","i">>),
       Abbrev(<<"M","A","C">>, "dot_b", <<"m","a","c","a","r","o","n","i">>),
       Abbrev(<<"G","E","H","A","K","T","B","A","L">>, "dot_b",
              <<"g","e","h","a","k","t","b","a","l","l","e","n">>),
       Abbrev(<<"Z","I","L","V","E","R","V","L","I","E","S","R">>, "dot_b",
              <<"z","i","l","v","e","r","v","l","i","e","s","r","i","j","s","t">>),
       Abbrev(<<"W","I","T","T","E","R">>, "dot_b", <<"w","i","t","t","e"," ","r","i","j","s","t">>),
       Abbrev(<<"A","A","R","D","B">>, "dot_b", <<"a","a","r","d","b","e","i","e","n">>),
       Abbrev(<<"S","I","N","A","A","S","A","P","P">>, "dot_b",
              <<"s","i","n","a","a","s","a","p","p","e","l">>),
       Abbrev(<<"T","O","M","A","T">>, "dot_b", <<"t","o","m","a","t","e","n">>),
       Abbrev(<<"K","I","P","F","I","L">>, "dot_b", <<"k","i","p","f","i","l","e","t">>),
       Abbrev(<<"D","R","O","G","H">>, "dot_b", <<"d","r","o","g","h","e">>),
       Abbrev(<<"M","H">>, "b", <<>>),
       Abbrev(<<"6","P","K">>, "b", <<>>),
       Abbrev(<<"4","P","K">>, "b", <<>>),
       Abbrev(<<"1","2","P","K">>, "b", <<>>) >>

\* the index just past a match of the abbreviation a that starts at index k,
\* or 0 if there is none; an optional dot is taken when the rest still matches
AbbrevEnd(s, k, a) ==
    IF ~(BoundaryAt(s, k) /\ LiteralAt(s, k, a.lit)) THEN 0
    ELSE LET e == k + Len(a.lit)
             dot == e <= Len(s) /\ s[e] = "."
             Ahead(x) == x > Len(s) \/ IsSpace(s[x])
         IN CASE a.tail = "none" -> e
              [] a.tail = "b" -> IF BoundaryAt(s, e) THEN e ELSE 0
              [] a.tail = "dot_la" ->
                    IF dot /\ Ahead(e + 1) THEN e + 1 ELSE IF Ahead(e) THEN e ELSE 0
              [] a.tail = "dot_b" ->
                    IF dot /\ BoundaryAt(s, e + 1) THEN e + 1
                    ELSE IF BoundaryAt(s, e) THEN e ELSE 0

\* re.sub(pat, repl, s, flags=re.IGNORECASE) from index k on
RECURSIVE SubAbbrev(_, _, _)
SubAbbrev(s, k, a) ==
    IF k > Len(s) THEN <<>>
    ELSE LET e == AbbrevEnd(s, k, a) IN
         IF e > 0 THEN a.repl \o SubAbbrev(s, e, a)
         ELSE <<s[k]>> \o SubAbbrev(s, k + 1, a)

\* for pat, repl in _RECEIPT_ABBREVS: s = re.sub(...)
RECURSIVE ExpandAbbrevs(_, _)
ExpandAbbrevs(s, n) ==
    IF n > Len(ReceiptAbbrevs) THEN s
    ELSE ExpandAbbrevs(SubAbbrev(s, 1, ReceiptAbbrevs[n]), n + 1)

\* re.sub(r"([a-zA-Z])(\d)", r"\1 \2", s)
RECURSIVE SpaceLetterDigit(_, _)
SpaceLetterDigit(s, k) ==
    IF k > Len(s) THEN <<>>
    ELSE IF k < Len(s) /\ s[k] \in AsciiLetters /\ s[k + 1] \in Digits
    THEN <<s[k], " ", s[k + 1]>> \o SpaceLetterDigit(s, k + 2)
    ELSE <<s[k]>> \o SpaceLetterDigit(s, k + 1)

DecimalUnits == {<<"L">>, <<"K","G">>, <<"G">>, <<"M","L">>}

PlainUnits ==
    {<<"G">>, <<"M","L">>, <<"L">>, <<"K","G">>, <<"P","K">>, <<"P","A","K">>,
     <<"S","T">>, <<"S","T","K">>, <<"C","L">>, <<"G","R">>}

\* \s*(unit)\b from index q: the index just past the unit, or 0
UnitEnd(s, q, units) ==
    LET u == SpanEnd(s, q, SpaceChars)
        fits == {w \in units : LiteralAt(s, u, w) /\ BoundaryAt(s, u + Len(w))}
    IN IF fits = {} THEN 0 ELSE u + Len(CHOOSE w \in fits : TRUE)

\* the index just past a match of a size pattern that starts at index k, or 0:
\* "dec" is \b\d+[,.]\d+\s*(L|KG|G|ML)\b, "plain" is
\* \b\d+\s*(G|ML|L|KG|PK|PAK|ST|STK|CL|GR)\b, "pct" is \b\d+%\b
SizeTokenEnd(s, k, kind) ==
    LET e1 == SpanEnd(s, k, Digits) IN
    IF ~(BoundaryAt(s, k) /\ e1 > k) THEN 0
    ELSE CASE kind = "dec" ->
                IF e1 <= Len(s) /\ s[e1] \in {",", "."} /\ SpanEnd(s, e1 + 1, Digits) > e1 + 1
                THEN UnitEnd(s, SpanEnd(s, e1 + 1, Digits), DecimalUnits)
                ELSE 0
           [] kind = "plain" -> UnitEnd(s, e1, PlainUnits)
           [] kind = "pct" ->
                IF e1 <= Len(s) /\ s[e1] = "%" /\ BoundaryAt(s, e1 + 1) THEN e1 + 1 ELSE 0

\* re.sub(pattern, "", s, flags=re.IGNORECASE) from index k on
RECURSIVE StripSizeTokens(_, _, _)
StripSizeTokens(s, k, kind) ==
    IF k > Len(s) THEN <<>>
    ELSE LET e == SizeTokenEnd(s, k, kind) IN
         IF e > 0 THEN StripSizeTokens(s, e, kind)
         ELSE <<s[k]>> \o StripSizeTokens(s, k + 1, kind)

\* re.sub(r"\s+", " ", s)
RECURSIVE CollapseSpaces(_, _)
CollapseSpaces(s, k) ==
    IF k > Len(s) THEN <<>>
    ELSE IF IsSpace(s[k]) THEN <<" ">> \o CollapseSpaces(s, SpanEnd(s, k, SpaceChars))
    ELSE <<s[k]>> \o CollapseSpaces(s, k + 1)

\* _clean_receipt_name(name)
CleanReceiptName(name) ==
    LET s1 == ExpandAbbrevs(Strip(name), 1)
        s2 == SpaceLetterDigit(s1, 1)
        s3 == StripSizeTokens(s2, 1, "dec")
        s4 == StripSizeTokens(s3, 1, "plain")
        s5 == StripSizeTokens(s4, 1, "pct")
    IN Strip(CollapseSpaces(s5, 1))


\* mutant of Attempts: the cleaned name is tried even when it equals the raw name
Attempts_CleanedAlways(name, clean_for_receipt) ==
    IF clean_for_receipt THEN <<Strip(name), CleanReceiptName(name)>> ELSE <<Strip(name)>>

\* attempts = [raw], and the cleaned name if it differs from raw ignoring case
Attempts(name, clean_for_receipt) ==
    LET raw == Strip(name)
        cleaned == CleanReceiptName(name)
    IN IF clean_for_receipt /\ Lower(cleaned) # Lower(raw)
       THEN <<raw, cleaned>>
       ELSE <<raw>>

\* a product link of a result page, as re.findall returns it
Link(slug, sku) == [slug |-> slug, sku |-> sku]

\* the (slug, sku) pairs of the first link of every SKU, in page order
RECURSIVE UniqueLinks(_, _)
UniqueLinks(links, seen) ==
    IF links = <<>> THEN <<>>
    ELSE IF Head(links).sku \in seen THEN UniqueLinks(Tail(links), seen)
    ELSE <<Head(links)>> \o UniqueLinks(Tail(links), seen \cup {Head(links).sku})

\* unique[:8]
MaxCandidates == 8

Top(unique) == SubSeq(unique, 1, Min(Len(unique), MaxCandidates))

\* ---- the inputs ----

SearchNames ==
    { MELK,
      <<" ","m","e","l","k"," ">>,
      <<"J","U","M","."," ","M","E","L","K"," ","1","L">>,
      ColaName,
      <<"C","o","l","a"," "," ","Z","e","r","o">>,
      <<"G","E","S","N"," ","B","R","O","O","D">>,
      <<"K","A","A","S"," ","2","0","%">>,
      <<"R","A","S","P"," ","K","A","A","S"," ","6","P","K">>,
      <<"B","r","o","o","d"," ","5","0","0","G">>,
      <<"1","L">>,
      <<>> }

\* the product links of a result page of the site: none, one, some with a SKU
\* linked twice, and more than eight SKUs
ResultPages ==
    { <<>>,
      <<Link("melk", SkuMelk)>>,
      <<Link("melk", SkuMelk), Link("melk", SkuPak)>>,
      <<Link("pak", SkuPak), Link("melk", SkuMelk), Link("pak-actie", SkuPak), Link("brood", SkuBrood)>>,
      <<Link("a", "201AA"), Link("b", "202AA"), Link("a", "201AA"), Link("c", "203AA"),
        Link("d", "204AA"), Link("e", "205AA"), Link("f", "206AA"), Link("g", "207AA"),
        Link("h", "208AA"), Link("i", "209AA"), Link("j", "210AA")>> }

SearchFrame(name, clean_for_receipt) ==
    [pc |-> "start", name |-> name, clean_for_receipt |-> clean_for_receipt,
     attempts |-> <<>>, k |-> 1, ret |-> None,
     \* history: the queries sent and the pages received
     sent |-> <<>>, got |-> <<>>]

SearchInit ==
    srch \in {SearchFrame(name, c) : name \in SearchNames, c \in BOOLEAN}

\* ---- the steps ----

\* the code up to the first request
BuildAttempts ==
    /\ srch.pc = "start"
    /\ srch' = [srch EXCEPT !.attempts = Attempts(srch.name, srch.clean_for_receipt),
                            !.pc = "get"]
    /\ UNCHANGED parseVars
    /\ UNCHANGED <<sc, ean, rs, disk, flushed, bl, gq, lg>>

\* resp = await c.get(...) returns a page: its unique links are returned if
\* there are any, else the next attempt is made, or [] is returned
GetReturns ==
    /\ srch.pc = "get"
    /\ \E page \in ResultPages :
         LET unique == UniqueLinks(page, {})
             f == [srch EXCEPT !.sent = Append(@, srch.attempts[srch.k]),
                               !.got = Append(@, page)]
         IN srch' = IF unique # <<>>
                    THEN [f EXCEPT !.ret = Top(unique), !.pc = "done"]
                    ELSE IF srch.k < Len(srch.attempts)
                    THEN [f EXCEPT !.k = @ + 1]
                    ELSE [f EXCEPT !.ret = <<>>, !.pc = "done"]
    /\ UNCHANGED parseVars
    /\ UNCHANGED <<sc, ean, rs, disk, flushed, bl, gq, lg>>

\* the request raises (timeout, connection error): the exception leaves the
\* function
GetRaises ==
    /\ srch.pc = "get"
    /\ srch' = [srch EXCEPT !.sent = Append(@, srch.attempts[srch.k]), !.pc = "raised"]
    /\ UNCHANGED parseVars
    /\ UNCHANGED <<sc, ean, rs, disk, flushed, bl, gq, lg>>

InitSearch ==
    /\ ParseIdle /\ sc = None /\ ean = None /\ ResolveIdle
    /\ SearchInit /\ bl = None /\ gq = None /\ lg = None

NextSearch == BuildAttempts \/ GetReturns \/ GetRaises

SpecSearch == InitSearch /\ [][NextSearch]_vars

----------------------------------------------------------------------------
(* Claims about _search_product_skus                                       *)

\* the positions of a page that hold the first link of their SKU
FirstOfSku(page) ==
    {n \in 1..Len(page) : \A m \in 1..(n - 1) : page[m].sku # page[n].sku}

\* the j-th smallest element of the set P of positions
Nth(P, j) == CHOOSE n \in P : Cardinality({m \in P : m < n}) = j - 1

QueriesAsStated ==
    /\ Len(srch.sent) <= 2
    /\ Len(srch.sent) >= 1 => srch.sent[1] = Strip(srch.name)
    /\ Len(srch.sent) = 2 =>
          /\ FirstOfSku(srch.got[1]) = {}
          /\ Lower(CleanReceiptName(srch.name)) # Lower(Strip(srch.name))
          /\ srch.sent[2] = CleanReceiptName(srch.name)

ResultAsStated ==
    srch.pc = "done" =>
        LET page == srch.got[Len(srch.got)]
            P == FirstOfSku(page)
        IN /\ Len(srch.ret) = Min(8, Cardinality(P))
           /\ \A j \in 1..Len(srch.ret) : srch.ret[j] = page[Nth(P, j)]
           /\ \A j, n \in 1..Len(srch.ret) : j # n => srch.ret[j].sku # srch.ret[n].sku
           /\ srch.ret = <<>> <=> \A n \in 1..Len(srch.got) : FirstOfSku(srch.got[n]) = {}

\* C34: a receipt candidate search queries the gateway with the raw trimmed
\* name first; the cleaned variant is queried only if the raw query produced no
\* candidate and the cleaned name differs from the raw name ignoring case, so
\* at most two queries are sent; the returned list has at most 8 entries,
\* pairwise distinct SKUs, in order of first occurrence in the response that
\* produced them, and is empty when no attempt produced a candidate.
C34_SearchQueries == QueriesAsStated /\ ResultAsStated

C34_Witness ==
    /\ srch.pc = "done" /\ srch.clean_for_receipt
    /\ Len(srch.sent) = 2 /\ srch.sent[1] = ColaName /\ srch.sent[2] = <<"C","o","l","a">>
    /\ srch.got[1] = <<>> /\ Len(srch.got[2]) = 11
    /\ Len(srch.ret) = 8 /\ srch.ret[8] = Link("h", "208AA")

----------------------------------------------------------------------------
(* barcode_lookup and the barcode cache                                    *)

EanDashed == <<"8","7","1","8","-","4","5","2","0","-","4","4","8","0","1">>

LookupBarcodes == {Ean13, EanDashed}

\* the two settings barcode_lookup reads
LookupSettings == [useBarcodeCache : BOOLEAN, useOpenFoodFactsFallback : BOOLEAN]

\* the result of a direct catalog hit
DirectResult(sku, barcode) ==
    [sku |-> sku, ean |-> barcode, verified |-> TRUE, matchSource |-> "Jumbo"]

\* what _openfoodfacts_fallback returns when it finds a product
FallbackResult(barcode) ==
    [sku |-> SkuMelk, ean |-> Ean13Other, scannedBarcode |-> barcode, verified |-> FALSE,
     matchSource |-> "OpenFoodFacts"]

\* contents of the barcode cache file (CACHE_FILE) before the call
BarcodeCaches ==
    { EmptyDict,
      Ean13 :> DirectResult(SkuPak, Ean13),
      (Ean13Other :> DirectResult(SkuBrood, Ean13Other))
          @@ (EanDashed :> FallbackResult(EanDashed)) }

\* what the site search page yields: no SKU, or the SKU of a product link
SiteSkus == {"none", SkuPak, SkuGone}

\* product.get("ean", "") of the catalog answer for a SKU, or no product
CatalogEans == {"missing", <<>>, Ean13, Ean13Other}

LookupFrame(barcode, settings, file) ==
    [pc |-> "start", barcode |-> barcode, settings |-> settings, cache |-> None,
     sku |-> None, ret |-> None, file |-> file,
     \* history
     file0 |-> file, calls |-> <<>>, loads |-> 0, saves |-> 0]

LookupInit ==
    bl \in {LookupFrame(b, st, f) : b \in LookupBarcodes, st \in LookupSettings, f \in BarcodeCaches}

\* mutant of Remember: the result is stored whatever useBarcodeCache says
Remember_Always(f, res) ==
    [f EXCEPT !.cache = SetField(@, f.barcode, res),
              !.file = SetField(f.cache, f.barcode, res),
              !.saves = @ + 1,
              !.ret = res, !.pc = "done"]

\* if useBarcodeCache: cache[barcode] = result; self._save_cache(cache)
\* return result
Remember(f, res) ==
    IF f.settings.useBarcodeCache
    THEN [f EXCEPT !.cache = SetField(@, f.barcode, res),
                   !.file = SetField(f.cache, f.barcode, res),
                   !.saves = @ + 1,
                   !.ret = res, !.pc = "done"]
    ELSE [f EXCEPT !.ret = res, !.pc = "done"]

\* the three places that give up on the catalog: the fallback if it is enabled,
\* else return None
GiveUp(f) ==
    IF f.settings.useOpenFoodFactsFallback
    THEN [f EXCEPT !.pc = "fallback"]
    ELSE [f EXCEPT !.ret = None, !.pc = "done"]

\* the call up to the site request: the settings, the cache read and the hit
LookupStart ==
    /\ bl.pc = "start"
    /\ bl' = IF bl.settings.useBarcodeCache
             THEN IF Has(bl.file, bl.barcode)
                  THEN [bl EXCEPT !.cache = bl.file, !.loads = @ + 1,
                                  !.ret = bl.file[bl.barcode], !.pc = "done"]
                  ELSE [bl EXCEPT !.cache = bl.file, !.loads = @ + 1, !.pc = "site"]
             ELSE [bl EXCEPT !.cache = EmptyDict, !.pc = "site"]
    /\ UNCHANGED parseVars
    /\ UNCHANGED <<sc, ean, rs, disk, flushed, srch, gq, lg>>

\* resp = await c.get(SEARCH_ENDPOINT, ...) returns; the SKU is read from the page
SiteReturns ==
    /\ bl.pc = "site"
    /\ \E sku \in SiteSkus :
         LET f == [bl EXCEPT !.calls = Append(@, "site")] IN
         bl' = IF sku = "none" THEN GiveUp(f)
               ELSE [f EXCEPT !.sku = sku, !.pc = "catalog"]
    /\ UNCHANGED parseVars
    /\ UNCHANGED <<sc, ean, rs, disk, flushed, srch, gq, lg>>

\* product = await self.search_by_sku(sku) returns
CatalogReturns ==
    /\ bl.pc = "catalog"
    /\ \E e \in CatalogEans :
         LET f == [bl EXCEPT !.calls = Append(@, "catalog")] IN
         bl' = IF e = "missing" THEN GiveUp(f)
               ELSE IF e # bl.barcode /\ e # DigitsOnly(bl.barcode) THEN GiveUp(f)
               ELSE Remember(f, DirectResult(bl.sku, bl.barcode))
    /\ UNCHANGED parseVars
    /\ UNCHANGED <<sc, ean, rs, disk, flushed, srch, gq, lg>>

\* the site request or the catalog request raises: the exception leaves
\* barcode_lookup
RequestRaises ==
    /\ bl.pc \in {"site", "catalog"}
    /\ bl' = [bl EXCEPT !.calls = Append(@, bl.pc), !.pc = "raised"]
    /\ UNCHANGED parseVars
    /\ UNCHANGED <<sc, ean, rs, disk, flushed, srch, gq, lg>>

\* result = await self._openfoodfacts_fallback(barcode): a product, or None
\* (the fallback catches every exception)
FallbackReturns ==
    /\ bl.pc = "fallback"
    /\ \E res \in {None, FallbackResult(bl.barcode)} :
         LET f == [bl EXCEPT !.calls = Append(@, "openfoodfacts")] IN
         bl' = IF res # None THEN Remember(f, res)
               ELSE [f EXCEPT !.ret = None, !.pc = "done"]
    /\ UNCHANGED parseVars
    /\ UNCHANGED <<sc, ean, rs, disk, flushed, srch, gq, lg>>

InitLookup ==
    /\ ParseIdle /\ sc = None /\ ean = None /\ ResolveIdle
    /\ srch = None /\ LookupInit /\ gq = None /\ lg = None

NextLookup == LookupStart \/ SiteReturns \/ CatalogReturns \/ RequestRaises \/ FallbackReturns

SpecLookup == InitLookup /\ [][NextLookup]_vars

----------------------------------------------------------------------------
(* Claims about the barcode cache                                          *)

\* a cache hit returns the entry, with no call
HitIsServed ==
    (bl.settings.useBarcodeCache /\ Has(bl.file0, bl.barcode)) =>
        /\ bl.calls = <<>> /\ bl.file = bl.file0
        /\ bl.pc = "done" => bl.ret = bl.file0[bl.barcode]

\* without a result the file is as it was; with caching disabled it is neither
\* read nor written
NoResultNoEntry ==
    /\ (bl.pc = "raised" \/ (bl.pc = "done" /\ bl.ret = None)) => bl.file = bl.file0
    /\ ~bl.settings.useBarcodeCache => (bl.loads = 0 /\ bl.saves = 0 /\ bl.file = bl.file0)

\* the file changes only as a lookup returns a result, by the entry of that
\* result
EntryOnlyOnResult ==
    bl'.file # bl.file =>
        /\ bl.settings.useBarcodeCache
        /\ bl'.pc = "done" /\ bl'.ret # None
        /\ bl'.ret.matchSource \in {"Jumbo", "OpenFoodFacts"}
        /\ bl'.file = SetField(bl.file, bl.barcode, bl'.ret)

\* C35: with caching enabled, a lookup of a barcode that has a cache entry
\* returns that entry without any catalog or OpenFoodFacts call, an entry is
\* created only when a lookup resolves successfully (direct catalog hit or
\* fallback result), and a lookup that returns nothing creates no entry; with
\* caching disabled the barcode cache is neither read nor written.
C35_BarcodeCache ==
    /\ [](HitIsServed /\ NoResultNoEntry)
    /\ [][EntryOnlyOnResult]_vars

C35_Witness ==
    /\ bl.pc = "done" /\ bl.settings.useBarcodeCache
    /\ bl.barcode = EanDashed /\ bl.file0 = (Ean13 :> DirectResult(SkuPak, Ean13))
    /\ bl.calls = <<"site", "catalog">>
    /\ bl.ret = DirectResult(SkuPak, EanDashed)
    /\ bl.file = (Ean13 :> DirectResult(SkuPak, Ean13)) @@ (EanDashed :> bl.ret)
    /\ bl.loads = 1 /\ bl.saves = 1

----------------------------------------------------------------------------
(* login, _capture_cookies and is_authenticated                            *)

RequiredCookies == {"user-session", "auth-session"}

OptionalCookies == {"authentication-token", "sid", "akaas_as", "ak_bmsc"}

TargetCookies == RequiredCookies \cup OptionalCookies

\* has_required = all(k in self.cookies for k in required)
IsAuthenticated(cookies) == RequiredCookies \subseteq DOMAIN cookies

\* _capture_cookies: self.cookies[name] = c["value"] for every target cookie
\* the browser holds (found is the set of their names)
CaptureCookies(cookies, found) ==
    [n \in DOMAIN cookies \cup found |-> IF n \in found THEN "new" ELSE cookies[n]]

\* ok = len(cookies_found) >= 4
EnoughCookies(found) == Cardinality(found) >= 4

\* the cookies a client holds from an earlier session
StoredCookies(names) == [n \in names |-> "old"]

\* ---- the inputs ----

\* the target cookies the browser holds after the login flow
BrowserCookies == SUBSET TargetCookies

ClientCookies ==
    { StoredCookies({}), StoredCookies(RequiredCookies), StoredCookies(TargetCookies),
      StoredCookies({"user-session", "sid"}) }

LoginFrame(cookies, save_credentials, creds) ==
    [pc |-> "driver", cookies |-> cookies, save_credentials |-> save_credentials,
     creds |-> creds, cookie_file |-> cookies, found |-> {}, raised |-> FALSE,
     ret |-> None,
     \* history
     cookies0 |-> cookies]

LoginInit ==
    lg \in {LoginFrame(c, s, k) : c \in ClientCookies, s \in BOOLEAN, k \in {"none", "old"}}

\* the return value of login
LoginResult(ok, captured) ==
    [success |-> ok, captured |-> captured]

\* except Exception as exc: return {"success": False, "message": ...}
LoginError == [success |-> FALSE, message |-> "Login error"]

\* ---- the steps (login has no await: they run without interleaving) ----

\* driver = self._create_driver()
CreateDriver ==
    /\ lg.pc = "driver"
    /\ \/ lg' = [lg EXCEPT !.pc = "perform"]
       \/ lg' = [lg EXCEPT !.ret = LoginError, !.pc = "done"]
    /\ UNCHANGED parseVars
    /\ UNCHANGED <<sc, ean, rs, disk, flushed, srch, bl, gq>>

\* self._perform_login(driver, username, password)
PerformLogin ==
    /\ lg.pc = "perform"
    /\ \/ lg' = [lg EXCEPT !.pc = "capture"]
       \/ lg' = [lg EXCEPT !.raised = TRUE, !.pc = "quit"]
    /\ UNCHANGED parseVars
    /\ UNCHANGED <<sc, ean, rs, disk, flushed, srch, bl, gq>>

\* cookies_found = self._capture_cookies(driver), ok, and the saves if ok
Capture ==
    /\ lg.pc = "capture"
    /\ \/ \E found \in BrowserCookies :
            LET cookies == CaptureCookies(lg.cookies, found)
                ok == EnoughCookies(found)
            IN lg' = [lg EXCEPT !.cookies = cookies,
                                !.found = found,
                                !.cookie_file = IF ok THEN cookies ELSE @,
                                !.creds = IF ok /\ lg.save_credentials THEN "new" ELSE @,
                                !.ret = LoginResult(ok, Cardinality(found)),
                                !.pc = "quit"]
       \/ lg' = [lg EXCEPT !.raised = TRUE, !.pc = "quit"]
    /\ UNCHANGED parseVars
    /\ UNCHANGED <<sc, ean, rs, disk, flushed, srch, bl, gq>>

\* finally: driver.quit(), then the return or the except clause
DriverQuit ==
    /\ lg.pc = "quit"
    /\ \/ lg' = [lg EXCEPT !.ret = IF lg.raised THEN LoginError ELSE @, !.pc = "done"]
       \/ lg' = [lg EXCEPT !.ret = LoginError, !.raised = TRUE, !.pc = "done"]
    /\ UNCHANGED parseVars
    /\ UNCHANGED <<sc, ean, rs, disk, flushed, srch, bl, gq>>

InitLogin ==
    /\ ParseIdle /\ sc = None /\ ean = None /\ ResolveIdle
    /\ srch = None /\ bl = None /\ gq = None /\ LoginInit

NextLogin == CreateDriver \/ PerformLogin \/ Capture \/ DriverQuit

SpecLogin == InitLogin /\ [][NextLogin]_vars

----------------------------------------------------------------------------
(* Claims about login                                                      *)

\* C40: whenever login returns success = true, is_authenticated() is true
\* immediately afterwards (both required cookies are held), and whenever login
\* returns success = false the client's in-memory cookies are unchanged.
C40_LoginOutcome ==
    lg.pc = "done" =>
        /\ lg.ret.success => IsAuthenticated(lg.cookies)
        /\ ~lg.ret.success => lg.cookies = lg.cookies0

----------------------------------------------------------------------------
(* graphql_request                                                         *)

\* what one POST to the endpoint gives back: a body without "errors", a body
\* whose first error message names an authentication failure, a body with any
\* other error, or no body at all (httpx or resp.json() raised)
Responses == {"data", "auth_error", "other_error"}

NoResponse == "no_response"

\* self.auto_reauth and self.username and self.password
CanReauth(f) == f.auto_reauth /\ f.creds # "none"

\* mutant of ShouldReauth: every error in the response starts the re-login
ShouldReauth_AnyError(f, resp) ==
    f.retry /\ CanReauth(f) /\ resp # "data"

\* if retry and self.auto_reauth and self.username and self.password and
\* ('unauthorized' in ... or 'not authenticated' in ... or 'invalid token' in ...)
ShouldReauth(f, resp) ==
    f.retry /\ CanReauth(f) /\ resp = "auth_error"

GraphqlFrame(cookies, auto_reauth, creds) ==
    [pc |-> "enter", cookies |-> cookies, auto_reauth |-> auto_reauth,
     creds |-> creds, retry |-> TRUE, ret |-> None,
     \* history: the responses of the sends so far, the logins started,
     \* the outcome of the re-login after an authentication error
     resps |-> <<>>, logins |-> 0, relogin |-> "none"]

GraphqlInit ==
    gq \in {GraphqlFrame(c, a, k) :
                c \in ClientCookies, a \in BOOLEAN, k \in {"none", "old"}}

\* no login is running
LoginIdle == [LoginFrame(StoredCookies({}), FALSE, "none") EXCEPT !.pc = "idle"]

\* await self.login(self.username, self.password, save_credentials=False)
CallLogin(cookies, creds) == LoginFrame(cookies, FALSE, creds)

\* ---- the steps ----

\* if not self.is_authenticated(): auto re-authenticate or raise
GqEnter ==
    /\ gq.pc = "enter"
    /\ IF IsAuthenticated(gq.cookies)
         THEN gq' = [gq EXCEPT !.pc = "post"] /\ UNCHANGED lg
         ELSE IF CanReauth(gq)
                THEN /\ gq' = [gq EXCEPT !.pc = "prelogin", !.logins = @ + 1]
                     /\ lg' = CallLogin(gq.cookies, gq.creds)
                ELSE /\ gq' = [gq EXCEPT !.pc = "raised", !.ret = "NotAuthenticated"]
                     /\ UNCHANGED lg
    /\ UNCHANGED parseVars
    /\ UNCHANGED <<sc, ean, rs, disk, flushed, srch, bl>>

\* result = await self.login(...); if not result.get("success"): raise
GqPreLoginReturns ==
    /\ gq.pc = "prelogin"
    /\ lg.pc = "done"
    /\ gq' = [gq EXCEPT !.cookies = lg.cookies,
                        !.pc = IF lg.ret.success THEN "post" ELSE "raised",
                        !.ret = IF lg.ret.success THEN @ ELSE "ReauthFailed"]
    /\ lg' = LoginIdle
    /\ UNCHANGED parseVars
    /\ UNCHANGED <<sc, ean, rs, disk, flushed, srch, bl>>

\* resp = await c.post(...); data = resp.json(); if "errors" in data: ...
GqPostReturns ==
    /\ gq.pc = "post"
    /\ \E resp \in Responses :
         LET sent == [gq EXCEPT !.resps = Append(@, resp)]
         IN IF resp = "data"
              THEN /\ gq' = [sent EXCEPT !.pc = "done", !.ret = "data"]
                   /\ UNCHANGED lg
              ELSE IF ShouldReauth(gq, resp)
                     THEN \* self.cookies.clear(); result = await self.login(...)
                          /\ gq' = [sent EXCEPT !.cookies = StoredCookies({}),
                                                !.pc = "relogin", !.logins = @ + 1]
                          /\ lg' = CallLogin(StoredCookies({}), gq.creds)
                     ELSE /\ gq' = [sent EXCEPT !.pc = "raised", !.ret = "GraphQLError"]
                          /\ UNCHANGED lg
    /\ UNCHANGED parseVars
    /\ UNCHANGED <<sc, ean, rs, disk, flushed, srch, bl>>

\* c.post or resp.json() raises (timeout, connection error, no JSON body)
GqPostRaises ==
    /\ gq.pc = "post"
    /\ gq' = [gq EXCEPT !.resps = Append(@, NoResponse),
                        !.pc = "raised", !.ret = "TransportError"]
    /\ UNCHANGED parseVars
    /\ UNCHANGED <<sc, ean, rs, disk, flushed, srch, bl, lg>>

\* if result.get("success"): return await self.graphql_request(..., retry=False)
\* otherwise: raise Exception("GraphQL Error: ...")
GqReloginReturns ==
    /\ gq.pc = "relogin"
    /\ lg.pc = "done"
    /\ gq' = IF lg.ret.success
               THEN [gq EXCEPT !.cookies = lg.cookies, !.relogin = "ok",
                               !.retry = FALSE, !.pc = "enter"]
               ELSE [gq EXCEPT !.cookies = lg.cookies, !.relogin = "failed",
                               !.pc = "raised", !.ret = "GraphQLError"]
    /\ lg' = LoginIdle
    /\ UNCHANGED parseVars
    /\ UNCHANGED <<sc, ean, rs, disk, flushed, srch, bl>>

InitGraphql ==
    /\ ParseIdle /\ sc = None /\ ean = None /\ ResolveIdle
    /\ srch = None /\ bl = None /\ lg = LoginIdle /\ GraphqlInit

NextGraphql ==
    \/ GqEnter \/ GqPreLoginReturns \/ GqPostReturns \/ GqPostRaises
    \/ GqReloginReturns
    \/ CreateDriver \/ PerformLogin \/ Capture \/ DriverQuit

SpecGraphql == InitGraphql /\ [][NextGraphql]_vars

\* the event loop resumes the coroutine, the POST has a timeout, and the
\* browser steps of login return or raise
SpecGraphqlFair == SpecGraphql /\ WF_vars(NextGraphql)

----------------------------------------------------------------------------
(* Claims about graphql_request                                            *)

GqEnded == gq.pc \in {"done", "raised"}

\* the sends of one call: at most two, the second only after an
\* authentication error with re-authentication possible and a successful
\* re-login, and a second send without data ends the call with the error
SendsAsStated ==
    /\ Len(gq.resps) <= 2
    /\ Len(gq.resps) = 2 =>
         /\ gq.resps[1] = "auth_error"
         /\ CanReauth(gq)
         /\ gq.relogin = "ok"
         /\ gq.resps[2] # "data" => gq.pc = "raised"

\* C39: one call of graphql_request sends the request at most twice and always
\* terminates; the second send happens only after the first response carried
\* an authentication error, auto re-authentication is enabled with stored
\* credentials and the re-login succeeded; an authentication error on the
\* second send is raised to the caller without another retry.
C39_AtMostTwoSends == []SendsAsStated /\ <>GqEnded

C39_Witness ==
    /\ gq.pc = "raised"
    /\ Len(gq.resps) = 2
    /\ gq.resps[2] = "auth_error"
    /\ gq.logins >= 2

====
